---- MODULE Spec2Model ----
(***************************************************************************)
(* duklog: the JSONL storage manager (storage/manager.rs) and the          *)
(* application shell (tui/app.rs) with the screens it drives.              *)
(*                                                                         *)
(* Strings are sequences of one-character strings, so that case folding    *)
(* and the '/' -> '_' path substitution are computed character by          *)
(* character.  Option<T> is None, the empty tuple, or Some(v), the tuple    *)
(* <<v>>.                                                                  *)
(***************************************************************************)
EXTENDS Integers, Sequences, FiniteSets, TLC

VARIABLES
    now,          \* Utc::now(), in clock ticks
    disk,         \* the storage directory: file name -> file
    faults,       \* I/O failures injected so far
    events,       \* key events App::run has read (storage calls made) so far
    last,         \* the operation applied by the last step and its outcome
    screen,       \* App.screen
    current_log,  \* App.current_log
    should_quit,  \* App.should_quit
    log_select,   \* App.log_select  (LogSelectState)
    log_create,   \* App.log_create  (LogCreateState)
    qso_entry,    \* App.qso_entry   (QsoEntryState)
    qso_list,     \* App.qso_list    (QsoListState)
    export,       \* App.export      (ExportState)
    main          \* fn main: the call it is at, and the terminal's modes

vars == <<now, disk, faults, events, last, screen, current_log, should_quit,
          log_select, log_create, qso_entry, qso_list, export, main>>

appVars == <<screen, current_log, should_quit, log_select, log_create,
             qso_entry, qso_list, export, main>>

----------------------------------------------------------------------------
(* Bounds *)

MaxTime == 1        \* the clock runs over 0..MaxTime
TicksPerDay == 1    \* clock ticks in one UTC day
MaxQsos == 2        \* contacts in one log
MaxFiles == 2       \* files in the storage directory
MaxFaults == 1      \* I/O failures in one behaviour
MaxEvents == 5      \* key events in one behaviour
MaxCalls == 2       \* storage calls in one behaviour of the manager alone
MaxUnique == 11     \* contacts of different stations a log starts with
MaxAdds == 2        \* contacts added to a log in one behaviour of the log alone

----------------------------------------------------------------------------
(* Values *)

None == <<>>
Some(v) == <<v>>
Unwrap(o) == o[1]

W1AW == <<"W", "1", "A", "W">>
W1AWP == <<"W", "1", "A", "W", "/", "P">>
K0001 == <<"K", "-", "0", "0", "0", "1">>
FN31 == <<"F", "N", "3", "1">>
KD9XYZ == <<"K", "D", "9">>
N0CALL == <<"N", "0">>

DateNaive(t) == t \div TicksPerDay

\* now.format("%Y%m%d-%H%M%S"): one text per clock tick
Digits == <<"0", "1", "2", "3", "4", "5", "6", "7", "8", "9">>
FormatTimestamp(t) == <<Digits[t + 1]>>

----------------------------------------------------------------------------
(* model/qso.rs, model/log *)

Qso(their_call, band, mode, timestamp) ==
    [their_call |-> their_call, rst_sent |-> "59", rst_rcvd |-> "59",
     band |-> band, mode |-> mode, timestamp |-> timestamp,
     comments |-> <<>>, their_park |-> None]

LogRecord(variant, station_callsign, operator, grid_square, qsos, created_at, log_id, park_ref, tx_count, class, section, power) ==
    [variant |-> variant, station_callsign |-> station_callsign,
     operator |-> operator, grid_square |-> grid_square, qsos |-> qsos,
     created_at |-> created_at, log_id |-> log_id, park_ref |-> park_ref,
     tx_count |-> tx_count, class |-> class, section |-> section,
     power |-> power]

GeneralLogNew(station_callsign, operator, grid_square, t) ==
    LogRecord("General", station_callsign, operator, grid_square, <<>>, t,
              station_callsign \o <<"-">> \o FormatTimestamp(t),
              None, None, None, None, None)

PotaLogNew(station_callsign, operator, park_ref, grid_square, t) ==
    LET id_prefix == IF park_ref # None THEN Unwrap(park_ref)
                     ELSE station_callsign
    IN  LogRecord("Pota", station_callsign, operator, grid_square, <<>>, t,
                  id_prefix \o <<"-">> \o FormatTimestamp(t),
                  park_ref, None, None, None, None)

FieldDayLogNew(station_callsign, operator, grid_square, tx_count, class, section, power, t) ==
    LogRecord("FieldDay", station_callsign, operator, grid_square, <<>>, t,
              <<"F", "D", "-">> \o station_callsign \o <<"-">>
                  \o FormatTimestamp(t),
              None, Some(tx_count), Some(class), Some(section), Some(power))

WfdLogNew(station_callsign, operator, grid_square, tx_count, class, section, t) ==
    LogRecord("WinterFieldDay", station_callsign, operator, grid_square, <<>>,
              t,
              <<"W", "F", "D", "-">> \o station_callsign \o <<"-">>
                  \o FormatTimestamp(t),
              None, Some(tx_count), Some(class), Some(section), None)

\* LogHeader::add_qso
AddQsoPrepend(log, qso) == [log EXCEPT !.qsos = <<qso>> \o @]
add_qso(log, qso) == [log EXCEPT !.qsos = Append(@, qso)]

\* LogHeader::replace_qso; index is 0-based.  None when out of bounds.
ReplaceQsoAppends(log, index, qso) ==
    IF index + 1 \in 1..Len(log.qsos)
    THEN Some([log EXCEPT !.qsos = Append(@, qso)])
    ELSE None
replace_qso(log, index, qso) ==
    IF index + 1 \in 1..Len(log.qsos)
    THEN Some([log EXCEPT !.qsos[index + 1] = qso])
    ELSE None

----------------------------------------------------------------------------
(* storage/manager.rs: the on-disk format *)

\* A file is its lines in order; open says that the last line has no
\* terminating newline yet (a write failed before its writeln!).
File(lines, open) == [lines |-> lines, open |-> open]

\* A line that is not one complete JSON value: text cut short by a failed
\* write, or two JSON values run together on one line.
BadLine == [kind |-> "bad"]

\* serde_json::to_writer(&mut file, qso)
QsoLine(q) ==
    [kind |-> "qso", their_call |-> q.their_call, rst_sent |-> q.rst_sent,
     rst_rcvd |-> q.rst_rcvd, band |-> q.band, mode |-> q.mode,
     timestamp |-> q.timestamp, comments |-> q.comments,
     their_park |-> q.their_park]

\* serde_json::from_str::<Qso>(&line)
ParseQso(line) ==
    IF line.kind = "qso"
    THEN Some([their_call |-> line.their_call, rst_sent |-> line.rst_sent,
               rst_rcvd |-> line.rst_rcvd, band |-> line.band,
               mode |-> line.mode, timestamp |-> line.timestamp,
               comments |-> line.comments, their_park |-> line.their_park])
    ELSE None

\* LogMetadata::from_log for the contest variants (persisted contest fields)
FromLogContest(log) ==
    [kind |-> "meta", station_callsign |-> log.station_callsign,
     operator |-> log.operator, park_ref |-> None,
     grid_square |-> log.grid_square, created_at |-> log.created_at,
     log_id |-> log.log_id, log_type |-> log.variant,
     tx_count |-> log.tx_count, class |-> log.class,
     section |-> log.section, power |-> log.power]

\* LogMetadata::from_log, serialised as line 1
FromLogNoPark(log) ==
    [kind |-> "meta", station_callsign |-> log.station_callsign,
     operator |-> log.operator, park_ref |-> None,
     grid_square |-> log.grid_square, created_at |-> log.created_at,
     log_id |-> log.log_id, log_type |-> log.variant,
     tx_count |-> None, class |-> None, section |-> None, power |-> None]
FromLog(log) ==
    IF log.variant \in {"FieldDay", "WinterFieldDay"}
    THEN FromLogContest(log)
    ELSE [kind |-> "meta", station_callsign |-> log.station_callsign,
          operator |-> log.operator,
          park_ref |-> IF log.variant = "Pota" THEN log.park_ref ELSE None,
          grid_square |-> log.grid_square, created_at |-> log.created_at,
          log_id |-> log.log_id, log_type |-> log.variant,
          tx_count |-> None, class |-> None, section |-> None,
          power |-> None]

\* LogMetadata::into_log for the contest variants
IntoLogContest(meta, qsos) ==
    LogRecord(meta.log_type, meta.station_callsign, meta.operator,
              meta.grid_square, qsos, meta.created_at, meta.log_id, None,
              meta.tx_count, meta.class, meta.section, meta.power)

\* LogMetadata::into_log
IntoLog(meta, qsos) ==
    CASE meta.log_type = "Pota" ->
            LogRecord("Pota", meta.station_callsign, meta.operator,
                      meta.grid_square, qsos, meta.created_at, meta.log_id,
                      meta.park_ref, None, None, None, None)
      [] meta.log_type = "General" ->
            LogRecord("General", meta.station_callsign, meta.operator,
                      meta.grid_square, qsos, meta.created_at, meta.log_id,
                      None, None, None, None, None)
      [] OTHER -> IntoLogContest(meta, qsos)

Ok(v) == [ok |-> TRUE, err |-> "", value |-> v]
Err(e) == [ok |-> FALSE, err |-> e, value |-> None]

\* LogManager::log_path: '/' in the log id becomes '_' in the file name
LogPathRaw(log_id) == log_id

log_path(log_id) ==
    [i \in 1..Len(log_id) |-> IF log_id[i] = "/" THEN "_" ELSE log_id[i]]

\* load_log_from_path, on the file's content
LoadFile(f) ==
    IF Len(f.lines) = 0 THEN Err("EmptyLogFile")
    ELSE IF f.lines[1].kind # "meta" THEN Err("Json")
    ELSE IF \E i \in 2..Len(f.lines) : ParseQso(f.lines[i]) = None
         THEN Err("Json")
    ELSE Ok(IntoLog(f.lines[1],
                    [i \in 1..(Len(f.lines) - 1) |->
                        Unwrap(ParseQso(f.lines[i + 1]))]))

load_log_from_path(d, path) ==
    IF path \notin DOMAIN d THEN Err("Io") ELSE LoadFile(d[path])

\* LogManager::load_log
load_log(d, log_id) == load_log_from_path(d, log_path(log_id))

\* How a storage call ends: Ok(()), an error the directory's content
\* decides, or an I/O error of the environment.
Done(d) == [ok |-> TRUE, fault |-> FALSE, disk |-> d, err |-> ""]
Failed(d) == [ok |-> FALSE, fault |-> FALSE, disk |-> d, err |-> "Io"]
Fault(d) == [ok |-> FALSE, fault |-> TRUE, disk |-> d, err |-> "Io"]

WriteFile(d, path, f) ==
    [p \in (DOMAIN d) \cup {path} |-> IF p = path THEN f ELSE d[p]]

RemoveFile(d, path) == [p \in (DOMAIN d) \ {path} |-> d[p]]

\* What a run of writes that fails leaves behind, the text so far being
\* `done` (complete lines) and the line being written `line`: nothing of
\* the line, a part of it, or all of it without its newline.
CutShort(done, line) ==
    {File(done, FALSE), File(Append(done, BadLine), TRUE),
     File(Append(done, line), TRUE)}

\* The lines save_log writes: metadata first, then every contact in order.
SaveLines(log) ==
    <<FromLog(log)>> \o [i \in 1..Len(log.qsos) |-> QsoLine(log.qsos[i])]

\* LogManager::save_log: every way the call can end.  File::create
\* truncates the file before anything is written; each later write can fail.
save_log(d, log) ==
    LET path == log_path(log.log_id)
        L == SaveLines(log)
    IN  {Done(WriteFile(d, path, File(L, FALSE)))}
        \cup {Fault(d)}
        \cup {Fault(WriteFile(d, path, f)) :
                f \in UNION {CutShort(SubSeq(L, 1, k), L[k + 1]) :
                                k \in 0..(Len(L) - 1)}}

\* Text appended to a file: it continues the last line when that line was
\* left without its newline.
AppendText(f, line, terminated) ==
    IF f.open
    THEN File([f.lines EXCEPT ![Len(f.lines)] = BadLine], ~terminated)
    ELSE File(Append(f.lines, line), ~terminated)

\* LogManager::append_qso: every way the call can end.
append_qso(d, log_id, qso) ==
    LET path == log_path(log_id)
    IN  IF path \notin DOMAIN d THEN {Failed(d)}
        ELSE LET f == d[path]
             IN  {Done(WriteFile(d, path, AppendText(f, QsoLine(qso), TRUE))),
                  Fault(d),
                  Fault(WriteFile(d, path, AppendText(f, BadLine, FALSE))),
                  Fault(WriteFile(d, path,
                                  AppendText(f, QsoLine(qso), FALSE)))}

\* LogManager::delete_log: fs::remove_file removes the file or fails.
delete_log(d, log_id) ==
    LET path == log_path(log_id)
    IN  IF path \notin DOMAIN d THEN {Failed(d)}
        ELSE {Done(RemoveFile(d, path)), Fault(d)}

\* The orders in which fs::read_dir may visit the files.
ScanOrders(d) ==
    {o \in [1..Cardinality(DOMAIN d) -> DOMAIN d] :
        \A i, j \in DOMAIN o : i # j => o[i] # o[j]}

\* Vec::sort_by (stable) with b.created_at.cmp(&a.created_at): insertion
\* of each element after the elements that are not older than it.
RECURSIVE SortByCreatedDesc(_)
SortByCreatedDesc(logs) ==
    IF Len(logs) = 0 THEN <<>>
    ELSE LET rest == SortByCreatedDesc(SubSeq(logs, 1, Len(logs) - 1))
             x == logs[Len(logs)]
             k == Cardinality({i \in 1..Len(rest) :
                                  rest[i].created_at >= x.created_at})
         IN  SubSeq(rest, 1, k) \o <<x>> \o SubSeq(rest, k + 1, Len(rest))

ListLogsLoadable(d, order, readable) ==
    IF ~readable THEN Err("Io")
    ELSE LET good == SelectSeq(order,
                               LAMBDA p : load_log_from_path(d, p).ok)
         IN  Ok(SortByCreatedDesc(
                    [i \in DOMAIN good |->
                        load_log_from_path(d, good[i]).value]))

\* LogManager::list_logs, the directory scan visiting the files in order
\* `order`; readable is FALSE when fs::read_dir itself fails.
list_logs(d, order, readable) ==
    IF ~readable THEN Err("Io")
    ELSE IF \E i \in DOMAIN order : ~load_log_from_path(d, order[i]).ok
         THEN Err("Load")
    ELSE Ok(SortByCreatedDesc(
                [i \in DOMAIN order |-> load_log_from_path(d, order[i]).value]))

\* str::to_lowercase, character by character
UpperCase == <<"A", "B", "C", "D", "E", "F", "G", "H", "I", "J", "K", "L", "M",
               "N", "O", "P", "Q", "R", "S", "T", "U", "V", "W", "X", "Y", "Z">>
LowerCase == <<"a", "b", "c", "d", "e", "f", "g", "h", "i", "j", "k", "l", "m",
               "n", "o", "p", "q", "r", "s", "t", "u", "v", "w", "x", "y", "z">>
to_lowercase(s) ==
    [i \in 1..Len(s) |->
        IF \E k \in 1..26 : UpperCase[k] = s[i]
        THEN LowerCase[CHOOSE k \in 1..26 : UpperCase[k] = s[i]]
        ELSE s[i]]

\* operator_eq: None matches None, two Some values compare ignoring case
operator_eq(a, b) ==
    CASE a = None /\ b = None -> TRUE
      [] a # None /\ b # None -> to_lowercase(Unwrap(a)) = to_lowercase(Unwrap(b))
      [] OTHER -> FALSE

\* park_ref_eq
park_ref_eq(a, b) ==
    CASE a = None /\ b = None -> TRUE
      [] a # None /\ b # None -> to_lowercase(Unwrap(a)) = to_lowercase(Unwrap(b))
      [] OTHER -> FALSE

\* log_config_eq
log_config_eq(a, b) ==
    CASE a.variant = "Pota" /\ b.variant = "Pota" ->
            park_ref_eq(a.park_ref, b.park_ref)
      [] a.variant = "General" /\ b.variant = "General" -> TRUE
      [] OTHER -> FALSE

\* The duplicate test create_log applies to one existing log
IsDuplicateLog(existing, log) ==
    /\ DateNaive(existing.created_at) = DateNaive(log.created_at)
    /\ to_lowercase(existing.station_callsign)
           = to_lowercase(log.station_callsign)
    /\ operator_eq(existing.operator, log.operator)
    /\ to_lowercase(existing.grid_square) = to_lowercase(log.grid_square)
    /\ log_config_eq(existing, log)

\* LogManager::create_log: every way the call can end.  The duplicate test
\* asks only whether any listed log matches, so the order of the directory
\* scan does not change the outcome and one order stands for all.
create_log(d, log) ==
    LET listed == list_logs(d, CHOOSE o \in ScanOrders(d) : TRUE, TRUE)
    IN  {Fault(d)}
        \cup (IF ~listed.ok THEN {[Failed(d) EXCEPT !.err = listed.err]}
              ELSE IF \E i \in DOMAIN listed.value :
                         IsDuplicateLog(listed.value[i], log)
                   THEN {[Failed(d) EXCEPT !.err = "DuplicateLog"]}
              ELSE save_log(d, log))

----------------------------------------------------------------------------
(* The storage manager driven through its own interface *)

EmptyDir == <<>>

\* What the last step did: the operation, whether its storage calls
\* succeeded, and the log id, log and contact it was given.
Did(op, ok, log_id, log, qso) ==
    [op |-> op, ok |-> ok, why |-> "", log_id |-> log_id, log |-> log,
     qso |-> qso]
NoOp == Did("none", TRUE, None, None, None)

\* tui/widgets/form.rs: a form is its fields' values, in order, and the
\* index of the focused field (labels, required flags and errors are left
\* out).  Form::set_value and Form::value take 0-based indices.
set_value(form, index, v) ==
    IF index + 1 \in DOMAIN form.values
    THEN [form EXCEPT !.values[index + 1] = v]
    ELSE form
value(form, index) ==
    IF index + 1 \in DOMAIN form.values THEN form.values[index + 1]
    ELSE <<>>

\* Form::insert_char, Form::delete_char
insert_char(form, ch) ==
    set_value(form, form.focus, Append(value(form, form.focus), ch))
delete_char(form) ==
    LET v == value(form, form.focus)
    IN  set_value(form, form.focus,
                  IF v = <<>> THEN v ELSE SubSeq(v, 1, Len(v) - 1))

\* char::to_ascii_uppercase
to_ascii_uppercase(ch) ==
    IF \E k \in 1..26 : LowerCase[k] = ch
    THEN UpperCase[CHOOSE k \in 1..26 : LowerCase[k] = ch]
    ELSE ch

\* tui/screens/log_create.rs: field indices
CALLSIGN == 0
OPERATOR == 1
GENERAL_GRID == 2
POTA_PARK_REF == 2
POTA_GRID == 3
CONTEST_GRID == 2
CONTEST_TX_COUNT == 3
CONTEST_CLASS == 4
CONTEST_SECTION == 5

\* LogType::next (forward) and LogType::prev
LogTypeStep(log_type, forward) ==
    CASE log_type = "General" ->
            IF forward THEN "Pota" ELSE "WinterFieldDay"
      [] log_type = "Pota" ->
            IF forward THEN "FieldDay" ELSE "General"
      [] log_type = "FieldDay" ->
            IF forward THEN "WinterFieldDay" ELSE "Pota"
      [] OTHER ->
            IF forward THEN "General" ELSE "FieldDay"

\* LogCreateState::new
LogCreateNew ==
    [log_type |-> "General",
     focus_area |-> "TypeSelector",
     form |-> [values |-> <<<<>>, <<>>, <<>>>>, focus |-> 0],
     callsign_buf |-> <<>>, operator_buf |-> <<>>, grid_square_buf |-> <<>>,
     park_ref_buf |-> <<>>, tx_count_buf |-> <<>>, class_buf |-> <<>>,
     section_buf |-> <<>>]

\* LogCreateState::sync_buffers_from_form
SyncBuffersCommonOnly(lc) ==
    [lc EXCEPT !.callsign_buf = value(lc.form, CALLSIGN),
               !.operator_buf = value(lc.form, OPERATOR)]

sync_buffers_from_form(lc) ==
    LET common == [lc EXCEPT !.callsign_buf = value(lc.form, CALLSIGN),
                             !.operator_buf = value(lc.form, OPERATOR)]
    IN  CASE lc.log_type = "General" ->
                [common EXCEPT
                    !.grid_square_buf = value(lc.form, GENERAL_GRID)]
          [] lc.log_type = "Pota" ->
                [common EXCEPT
                    !.park_ref_buf = value(lc.form, POTA_PARK_REF),
                    !.grid_square_buf = value(lc.form, POTA_GRID)]
          [] OTHER ->
                [common EXCEPT
                    !.grid_square_buf = value(lc.form, CONTEST_GRID),
                    !.tx_count_buf = value(lc.form, CONTEST_TX_COUNT),
                    !.class_buf = value(lc.form, CONTEST_CLASS),
                    !.section_buf = value(lc.form, CONTEST_SECTION)]

\* LogCreateState::build_form_for_type: a fresh form for the type, focus on
\* its first field, filled from the buffers
build_form_for_type(lc) ==
    LET n == CASE lc.log_type = "General" -> 3
               [] lc.log_type = "Pota" -> 4
               [] OTHER -> 6
        blank == [values |-> [i \in 1..n |-> <<>>], focus |-> 0]
        common == set_value(set_value(blank, CALLSIGN, lc.callsign_buf),
                            OPERATOR, lc.operator_buf)
    IN  CASE lc.log_type = "General" ->
                set_value(common, GENERAL_GRID, lc.grid_square_buf)
          [] lc.log_type = "Pota" ->
                set_value(set_value(common, POTA_PARK_REF, lc.park_ref_buf),
                          POTA_GRID, lc.grid_square_buf)
          [] OTHER ->
                set_value(
                    set_value(
                        set_value(
                            set_value(common, CONTEST_GRID,
                                      lc.grid_square_buf),
                            CONTEST_TX_COUNT, lc.tx_count_buf),
                        CONTEST_CLASS, lc.class_buf),
                    CONTEST_SECTION, lc.section_buf)

Screens == {"LogSelect", "LogCreate", "QsoEntry", "QsoList", "Export", "Help"}

\* fn main while App::run loops: raw mode is on and the alternate screen
\* is shown.
MainRunning ==
    [pc |-> "run", raw_mode |-> TRUE, alternate_screen |-> TRUE,
     restored |-> FALSE, result |-> "none"]

\* The screens App::new builds, before the log list is loaded.
ScreensInit ==
    /\ main = MainRunning
    /\ screen = "LogSelect"
    /\ should_quit = FALSE
    /\ log_create = LogCreateNew
    /\ log_select = [logs |-> <<>>, selected |-> None, error |-> None,
                     pending_delete |-> None]
    /\ qso_entry = [recent_qsos |-> <<>>, error |-> None, editing |-> None]
    /\ qso_list = [selected |-> 0]
    /\ export = [status |-> "Ready", qso_count |-> 0]

\* The state App::new builds over an empty or listed directory.
AppInit == current_log = None /\ ScreensInit

EPA == <<"E", "P", "A">>

\* Logs as the four constructors build them at time t.
NewLogs(t) ==
    {GeneralLogNew(W1AWP, None, FN31, t),
     PotaLogNew(W1AW, Some(W1AW), Some(K0001), FN31, t),
     FieldDayLogNew(W1AW, None, FN31, 1, "B", EPA, "Low", t),
     WfdLogNew(W1AW, Some(W1AW), FN31, 2, "H", EPA, t)}

Calls == {KD9XYZ, N0CALL}

QsosAt(t) == {Qso(c, "20M", "SSB", t) : c \in Calls}

SeqsUpTo(S, n) == UNION {[1..k -> S] : k \in 0..n}

\* Logs a caller of the storage manager may hold: a log of any variant
\* with any contacts.
StoreInputs ==
    {[h EXCEPT !.qsos = qs] :
        h \in NewLogs(now), qs \in SeqsUpTo(QsosAt(now), MaxQsos)}

Room(path) == path \in DOMAIN disk \/ Cardinality(DOMAIN disk) < MaxFiles

\* An outcome the fault budget allows, and the budget after it.
Allowed(out) == out.fault => faults < MaxFaults
Spend(out) == faults' = IF out.fault THEN faults + 1 ELSE faults

\* The caller holds one log, current_log, for the whole behaviour: it saves
\* that log and appends contacts to it, and it creates and deletes the
\* empty log of the same identity and one log beside it.
Beside(log) ==
    {h \in NewLogs(now) : h.log_id = log.log_id}
    \cup {IF log.variant = "General"
          THEN PotaLogNew(W1AW, Some(W1AW), Some(K0001), FN31, now)
          ELSE GeneralLogNew(W1AWP, None, FN31, now)}

StInit ==
    /\ now = 0
    /\ disk = EmptyDir
    /\ faults = 0
    /\ events = 0
    /\ last = NoOp
    /\ current_log \in {Some(log) : log \in StoreInputs}
    /\ ScreensInit

StSaveLog ==
    LET log == Unwrap(current_log)
    IN  /\ Room(log_path(log.log_id))
        /\ \E out \in save_log(disk, log) :
              /\ Allowed(out)
              /\ Spend(out)
              /\ disk' = out.disk
              /\ last' = Did("save_log", out.ok, Some(log.log_id),
                           IF out.ok THEN Some(log) ELSE None, None)
        /\ events < MaxCalls
        /\ events' = events + 1
        /\ UNCHANGED <<now, appVars>>

StAppendQso ==
    \E q \in QsosAt(now) :
        LET log_id == Unwrap(current_log).log_id
        IN  /\ log_path(log_id) \in DOMAIN disk =>
                  Len(disk[log_path(log_id)].lines) <= MaxQsos
            /\ \E out \in append_qso(disk, log_id, q) :
                  /\ Allowed(out)
                  /\ Spend(out)
                  /\ disk' = out.disk
                  /\ last' = Did("append_qso", out.ok, Some(log_id), None,
                               IF out.ok THEN Some(q) ELSE None)
            /\ events < MaxCalls
            /\ events' = events + 1
            /\ UNCHANGED <<now, appVars>>

StCreateLog ==
    \E log \in Beside(Unwrap(current_log)) :
        /\ Room(log_path(log.log_id))
        /\ \E out \in create_log(disk, log) :
              /\ Allowed(out)
              /\ Spend(out)
              /\ disk' = out.disk
              /\ last' = [Did("create_log", out.ok, Some(log.log_id),
                               IF out.ok THEN Some(log) ELSE None, None)
                              EXCEPT !.why = out.err]
        /\ events < MaxCalls
        /\ events' = events + 1
        /\ UNCHANGED <<now, appVars>>

StDeleteLog ==
    \E log \in Beside(Unwrap(current_log)) :
        /\ \E out \in delete_log(disk, log.log_id) :
              /\ Allowed(out)
              /\ Spend(out)
              /\ disk' = out.disk
              /\ last' = Did("delete_log", out.ok, Some(log.log_id), None,
                           None)
        /\ events < MaxCalls
        /\ events' = events + 1
        /\ UNCHANGED <<now, appVars>>

StNext == StSaveLog \/ StAppendQso \/ StCreateLog \/ StDeleteLog

SpecStore == StInit /\ [][StNext]_vars

----------------------------------------------------------------------------
(* tui/screens: the state the screens keep *)

Min(a, b) == IF a < b THEN a ELSE b

Applied(op, ok, why, log_id) ==
    [Did(op, ok, log_id, None, None) EXCEPT !.why = why]

\* set_error of LogSelectState and QsoEntryState
set_error(st, msg) == [st EXCEPT !.error = Some(msg)]

\* QsoEntryState::set_log_context: the last three contacts, newest first
set_log_context(qe, log) ==
    LET n == Len(log.qsos)
    IN  [qe EXCEPT !.recent_qsos =
            [i \in 1..Min(3, n) |-> log.qsos[n + 1 - i]]]

\* QsoEntryState::add_recent_qso
add_recent_qso(qe, qso) ==
    [qe EXCEPT !.recent_qsos = SubSeq(<<qso>> \o @, 1, Min(3, Len(@) + 1))]

\* QsoEntryState::clear_fast_fields (the form's text is not kept here)
clear_fast_fields(qe) == [qe EXCEPT !.error = None]

\* QsoEntryState::start_editing, clear_editing
start_editing(qe, index, qso) == [qe EXCEPT !.editing = Some(index)]
clear_editing(qe) == [qe EXCEPT !.editing = None]

\* LogSelectState::load, given what list_logs returned
load(ls, listed) ==
    IF listed.ok
    THEN [ls EXCEPT !.logs = listed.value,
                    !.selected = IF Len(listed.value) = 0 THEN None
                                 ELSE Some(0),
                    !.error = None]
    ELSE ls

\* Log::find_duplicates at time t: the contacts with qso's duplicate key,
\* of the current UTC day unless the log is a contest log.
duplicate_key(q) == <<to_lowercase(q.their_call), q.band, q.mode>>
FindDuplicatesToday(log, qso, t) ==
    {i \in 1..Len(log.qsos) :
        /\ DateNaive(log.qsos[i].timestamp) = DateNaive(t)
        /\ duplicate_key(log.qsos[i]) = duplicate_key(qso)}
find_duplicates(log, qso, t) ==
    {i \in 1..Len(log.qsos) :
        /\ log.variant \in {"FieldDay", "WinterFieldDay"}
           \/ DateNaive(log.qsos[i].timestamp) = DateNaive(t)
        /\ duplicate_key(log.qsos[i]) = duplicate_key(qso)}

\* LogHeader::qso_count_on_date: the size of the HashSet of the duplicate
\* keys of the contacts dated `date`
QsoCountContacts(log, date) ==
    Cardinality({i \in 1..Len(log.qsos) :
                    DateNaive(log.qsos[i].timestamp) = date})
qso_count_on_date(log, date) ==
    Cardinality({duplicate_key(log.qsos[i]) :
                    i \in {j \in 1..Len(log.qsos) :
                              DateNaive(log.qsos[j].timestamp) = date}})

\* LogHeader::qso_count_today at time t
qso_count_today(log, t) == qso_count_on_date(log, DateNaive(t))

POTA_ACTIVATION_THRESHOLD == 10

\* usize::saturating_sub
saturating_sub(a, b) == IF a > b THEN a - b ELSE 0

\* Log::needs_for_activation at time t
needs_for_activation(log, t) ==
    IF log.variant = "Pota"
    THEN saturating_sub(POTA_ACTIVATION_THRESHOLD, qso_count_today(log, t))
    ELSE 0

\* Log::is_activated at time t
IsActivatedAbove(log, t) ==
    IF log.variant = "Pota"
    THEN qso_count_today(log, t) > POTA_ACTIVATION_THRESHOLD
    ELSE FALSE
is_activated(log, t) ==
    IF log.variant = "Pota"
    THEN qso_count_today(log, t) >= POTA_ACTIVATION_THRESHOLD
    ELSE FALSE

----------------------------------------------------------------------------
(* tui/app.rs: App::apply_action and App::navigate.  ls and qe are the    *)
(* Log Select and QSO Entry states as the screen's key handler left them. *)

\* One directory listing: the scan order and whether read_dir works.
Listings(d) ==
    {[order |-> o, readable |-> r] : o \in ScanOrders(d), r \in BOOLEAN}
Listed(l) == list_logs(disk, l.order, l.readable)
Faults(out, l) ==
    (IF out.fault THEN 1 ELSE 0) + (IF l.readable THEN 0 ELSE 1)

NavigateLogSelectSilent(ls, qe, op) ==
    \E l \in Listings(disk) :
        /\ faults + Faults(Done(disk), l) <= MaxFaults
        /\ faults' = faults + Faults(Done(disk), l)
        /\ log_select' = IF Listed(l).ok THEN load(ls, Listed(l))
                         ELSE ls
        /\ screen' = "LogSelect"
        /\ qso_entry' = qe
        /\ last' = Applied(op, Listed(l).ok,
                           IF Listed(l).ok THEN "" ELSE "load", None)
        /\ UNCHANGED <<disk, current_log, should_quit, qso_list, export>>

NavigateLogSelect(ls, qe, op) ==
    \E l \in Listings(disk) :
        /\ faults + Faults(Done(disk), l) <= MaxFaults
        /\ faults' = faults + Faults(Done(disk), l)
        /\ log_select' = IF Listed(l).ok THEN load(ls, Listed(l))
                         ELSE set_error(ls, "Failed to load logs")
        /\ screen' = "LogSelect"
        /\ qso_entry' = qe
        /\ last' = Applied(op, Listed(l).ok,
                           IF Listed(l).ok THEN "" ELSE "load", None)
        /\ UNCHANGED <<disk, current_log, should_quit, qso_list, export>>

NavigateLogCreate(op) ==
    /\ screen' = "LogCreate"
    /\ last' = Applied(op, TRUE, "", None)
    /\ UNCHANGED <<disk, faults, current_log, should_quit, log_select,
                   qso_entry, qso_list, export>>

NavigateQsoEntry(op) ==
    /\ qso_entry' = IF current_log # None
                    THEN set_log_context(qso_entry, Unwrap(current_log))
                    ELSE qso_entry
    /\ screen' = "QsoEntry"
    /\ last' = Applied(op, TRUE, "", None)
    /\ UNCHANGED <<disk, faults, current_log, should_quit, log_select,
                   qso_list, export>>

NavigateQsoListKeeps(qe, op) ==
    /\ screen' = "QsoList"
    /\ qso_entry' = qe
    /\ last' = Applied(op, TRUE, "", None)
    /\ UNCHANGED <<disk, faults, current_log, should_quit, log_select,
                   qso_list, export>>

NavigateQsoList(qe, op) ==
    /\ qso_list' = [selected |-> 0]
    /\ screen' = "QsoList"
    /\ qso_entry' = qe
    /\ last' = Applied(op, TRUE, "", None)
    /\ UNCHANGED <<disk, faults, current_log, should_quit, log_select,
                   export>>

NavigateExport(op) ==
    /\ export' = [status |-> "Ready",
                  qso_count |-> IF current_log # None
                                THEN Len(Unwrap(current_log).qsos) ELSE 0]
    /\ screen' = "Export"
    /\ last' = Applied(op, TRUE, "", None)
    /\ UNCHANGED <<disk, faults, current_log, should_quit, log_select,
                   qso_entry, qso_list>>

ApplyNone(ls, qe) ==
    /\ log_select' = ls
    /\ qso_entry' = qe
    /\ last' = Applied("None", TRUE, "", None)
    /\ UNCHANGED <<disk, faults, screen, current_log, should_quit, qso_list,
                   export>>

ApplyQuit ==
    /\ should_quit' = TRUE
    /\ last' = Applied("Quit", TRUE, "", None)
    /\ UNCHANGED <<disk, faults, screen, current_log, log_select, qso_entry,
                   qso_list, export>>

ApplySelectLog(log) ==
    /\ qso_entry' = set_log_context(qso_entry, log)
    /\ current_log' = Some(log)
    /\ screen' = "QsoEntry"
    /\ last' = Applied("SelectLog", TRUE, "", Some(log.log_id))
    /\ UNCHANGED <<disk, faults, should_quit, log_select, qso_list, export>>

ApplyCreateLogAdopts(log) ==
    \E out \in save_log(disk, log) :
        /\ Allowed(out)
        /\ Spend(out)
        /\ disk' = out.disk
        /\ IF ~out.ok
           THEN /\ log_select' = set_error(log_select, "Failed to save log")
                /\ screen' = "LogSelect"
                /\ current_log' = Some(log)
                /\ UNCHANGED qso_entry
           ELSE /\ qso_entry' = set_log_context(qso_entry, log)
                /\ current_log' = Some(log)
                /\ screen' = "QsoEntry"
                /\ UNCHANGED log_select
        /\ last' = Applied("CreateLog", out.ok,
                           IF out.ok THEN "" ELSE "save", Some(log.log_id))
        /\ UNCHANGED <<should_quit, qso_list, export>>

ApplyCreateLog(log) ==
    \E out \in save_log(disk, log) :
        /\ Allowed(out)
        /\ Spend(out)
        /\ disk' = out.disk
        /\ IF ~out.ok
           THEN /\ log_select' = set_error(log_select, "Failed to save log")
                /\ screen' = "LogSelect"
                /\ UNCHANGED <<current_log, qso_entry>>
           ELSE /\ qso_entry' = set_log_context(qso_entry, log)
                /\ current_log' = Some(log)
                /\ screen' = "QsoEntry"
                /\ UNCHANGED log_select
        /\ last' = Applied("CreateLog", out.ok,
                           IF out.ok THEN "" ELSE "save", Some(log.log_id))
        /\ UNCHANGED <<should_quit, qso_list, export>>

\* storage::export_adif writes outside the storage directory; written
\* says whether formatting and the write succeeded.
ApplyExportLogIntoStorage(written) ==
    /\ written \/ current_log = None \/ faults < MaxFaults
    /\ faults' = IF current_log # None /\ ~written THEN faults + 1
                 ELSE faults
    /\ export' = [export EXCEPT !.status =
                     IF current_log # None /\ written THEN "Success"
                     ELSE "Error"]
    /\ last' = Applied("ExportLog", current_log = None \/ written,
                       CASE current_log = None -> "no log"
                         [] ~written -> "export"
                         [] OTHER -> "", None)
    /\ disk' = IF current_log # None /\ written
               THEN WriteFile(disk, <<"e", "x", "p", "o", "r", "t">>,
                              File(<<>>, FALSE))
               ELSE disk
    /\ UNCHANGED <<screen, current_log, should_quit, log_select,
                   qso_entry, qso_list>>

ApplyExportLog(written) ==
    /\ written \/ current_log = None \/ faults < MaxFaults
    /\ faults' = IF current_log # None /\ ~written THEN faults + 1
                 ELSE faults
    /\ export' = [export EXCEPT !.status =
                     IF current_log # None /\ written THEN "Success"
                     ELSE "Error"]
    /\ last' = Applied("ExportLog", current_log = None \/ written,
                       CASE current_log = None -> "no log"
                         [] ~written -> "export"
                         [] OTHER -> "", None)
    /\ UNCHANGED <<disk, screen, current_log, should_quit, log_select,
                   qso_entry, qso_list>>

ApplyEditQso(index) ==
    /\ qso_entry' =
          IF current_log = None
          THEN set_error(qso_entry, "No active log selected")
          ELSE IF index + 1 \in 1..Len(Unwrap(current_log).qsos)
          THEN start_editing(qso_entry, index,
                             Unwrap(current_log).qsos[index + 1])
          ELSE set_error(qso_entry, "QSO index out of bounds")
    /\ screen' = "QsoEntry"
    /\ last' = Applied("EditQso", TRUE,
                       CASE current_log = None -> "no log"
                         [] index + 1 \notin 1..Len(Unwrap(current_log).qsos)
                              -> "bounds"
                         [] OTHER -> "", None)
    /\ UNCHANGED <<disk, faults, current_log, should_quit, log_select,
                   qso_list, export>>

ApplyUpdateQsoStaysEditing(qe, index, qso) ==
    IF current_log = None
    THEN /\ qso_entry' = set_error(qe, "No active log selected")
         /\ last' = Applied("UpdateQso", TRUE, "no log", None)
         /\ UNCHANGED <<disk, faults, screen, current_log, should_quit,
                        log_select, qso_list, export>>
    ELSE IF replace_qso(Unwrap(current_log), index, qso) = None
    THEN /\ qso_entry' =
              clear_editing(set_error(qe, "QSO index out of bounds"))
         /\ last' = Applied("UpdateQso", TRUE, "bounds", None)
         /\ UNCHANGED <<disk, faults, screen, current_log, should_quit,
                        log_select, qso_list, export>>
    ELSE LET log == Unwrap(replace_qso(Unwrap(current_log), index, qso))
         IN  \E out \in save_log(disk, log) :
                /\ Allowed(out)
                /\ Spend(out)
                /\ disk' = out.disk
                /\ current_log' = Some(log)
                /\ IF ~out.ok
                   THEN /\ qso_entry' = set_error(qe, "Failed to save log")
                        /\ UNCHANGED screen
                   ELSE /\ qso_entry' = clear_editing(qe)
                        /\ screen' = "QsoList"
                /\ last' = Applied("UpdateQso", out.ok,
                                   IF out.ok THEN "" ELSE "save",
                                   Some(log.log_id))
                /\ UNCHANGED <<should_quit, log_select, qso_list, export>>

ApplyUpdateQsoResets(qe, index, qso) ==
    IF current_log = None
    THEN /\ qso_entry' = set_error(qe, "No active log selected")
         /\ last' = Applied("UpdateQso", TRUE, "no log", None)
         /\ UNCHANGED <<disk, faults, screen, current_log, should_quit,
                        log_select, qso_list, export>>
    ELSE IF replace_qso(Unwrap(current_log), index, qso) = None
    THEN /\ qso_entry' =
              clear_editing(set_error(qe, "QSO index out of bounds"))
         /\ last' = Applied("UpdateQso", TRUE, "bounds", None)
         /\ UNCHANGED <<disk, faults, screen, current_log, should_quit,
                        log_select, qso_list, export>>
    ELSE LET log == Unwrap(replace_qso(Unwrap(current_log), index, qso))
         IN  \E out \in save_log(disk, log) :
                /\ Allowed(out)
                /\ Spend(out)
                /\ disk' = out.disk
                /\ current_log' = Some(log)
                /\ IF ~out.ok
                   THEN /\ qso_entry' =
                             clear_editing(set_error(qe, "Failed to save log"))
                        /\ UNCHANGED screen
                   ELSE /\ qso_entry' = clear_editing(qe)
                        /\ screen' = "QsoList"
                        /\ qso_list' = [selected |-> 0]
                /\ last' = Applied("UpdateQso", out.ok,
                                   IF out.ok THEN "" ELSE "save",
                                   Some(log.log_id))
                /\ ~out.ok => UNCHANGED qso_list
                /\ UNCHANGED <<should_quit, log_select, export>>

ApplyUpdateQsoSavesFirst(qe, index, qso) ==
    IF current_log = None
    THEN /\ qso_entry' = set_error(qe, "No active log selected")
         /\ last' = Applied("UpdateQso", TRUE, "no log", None)
         /\ UNCHANGED <<disk, faults, screen, current_log, should_quit,
                        log_select, qso_list, export>>
    ELSE IF replace_qso(Unwrap(current_log), index, qso) = None
    THEN /\ qso_entry' =
              clear_editing(set_error(qe, "QSO index out of bounds"))
         /\ last' = Applied("UpdateQso", TRUE, "bounds", None)
         /\ UNCHANGED <<disk, faults, screen, current_log, should_quit,
                        log_select, qso_list, export>>
    ELSE LET log == Unwrap(replace_qso(Unwrap(current_log), index, qso))
         IN  \E out \in save_log(disk, Unwrap(current_log)) :
                /\ Allowed(out)
                /\ Spend(out)
                /\ disk' = out.disk
                /\ current_log' = Some(log)
                /\ IF ~out.ok
                   THEN /\ qso_entry' =
                             clear_editing(set_error(qe, "Failed to save log"))
                        /\ UNCHANGED screen
                   ELSE /\ qso_entry' = clear_editing(qe)
                        /\ screen' = "QsoList"
                /\ last' = Applied("UpdateQso", out.ok,
                                   IF out.ok THEN "" ELSE "save",
                                   Some(log.log_id))
                /\ UNCHANGED <<should_quit, log_select, qso_list, export>>

ApplyUpdateQso(qe, index, qso) ==
    IF current_log = None
    THEN /\ qso_entry' = set_error(qe, "No active log selected")
         /\ last' = Applied("UpdateQso", TRUE, "no log", None)
         /\ UNCHANGED <<disk, faults, screen, current_log, should_quit,
                        log_select, qso_list, export>>
    ELSE IF replace_qso(Unwrap(current_log), index, qso) = None
    THEN /\ qso_entry' =
              clear_editing(set_error(qe, "QSO index out of bounds"))
         /\ last' = Applied("UpdateQso", TRUE, "bounds", None)
         /\ UNCHANGED <<disk, faults, screen, current_log, should_quit,
                        log_select, qso_list, export>>
    ELSE LET log == Unwrap(replace_qso(Unwrap(current_log), index, qso))
         IN  \E out \in save_log(disk, log) :
                /\ Allowed(out)
                /\ Spend(out)
                /\ disk' = out.disk
                /\ current_log' = Some(log)
                /\ IF ~out.ok
                   THEN /\ qso_entry' =
                             clear_editing(set_error(qe, "Failed to save log"))
                        /\ UNCHANGED screen
                   ELSE /\ qso_entry' = clear_editing(qe)
                        /\ screen' = "QsoList"
                /\ last' = Applied("UpdateQso", out.ok,
                                   IF out.ok THEN "" ELSE "save",
                                   Some(log.log_id))
                /\ UNCHANGED <<should_quit, log_select, qso_list, export>>

\* DeleteLog: the active log is dropped when it is the deleted one
ClearAlways(cur, log_id) == None
ClearDeleted(cur, log_id) ==
    IF cur # None /\ Unwrap(cur).log_id = log_id THEN None ELSE cur

ApplyDeleteLogReloads(ls, log_id) ==
    \E out \in delete_log(disk, log_id) : \E l \in Listings(out.disk) :
        /\ ~out.ok => l.readable
        /\ faults + Faults(out, l) <= MaxFaults
        /\ faults' = faults + Faults(out, l)
        /\ disk' = out.disk
        /\ IF ~out.ok
           THEN /\ log_select' =
                     set_error(load(ls, list_logs(disk, l.order, TRUE)),
                               "Failed to delete log")
                /\ UNCHANGED current_log
                /\ last' = Applied("DeleteLog", FALSE, "delete", Some(log_id))
           ELSE LET listed == list_logs(out.disk, l.order, l.readable)
                IN  /\ current_log' = ClearDeleted(current_log, log_id)
                    /\ log_select' =
                          IF listed.ok THEN load(ls, listed)
                          ELSE set_error(ls, "Failed to load logs")
                    /\ last' = Applied("DeleteLog", listed.ok,
                                       IF listed.ok THEN "" ELSE "load",
                                       Some(log_id))
        /\ UNCHANGED <<screen, should_quit, qso_entry, qso_list, export>>

ApplyDeleteLog(ls, log_id) ==
    \E out \in delete_log(disk, log_id) : \E l \in Listings(out.disk) :
        /\ ~out.ok => l.readable
        /\ faults + Faults(out, l) <= MaxFaults
        /\ faults' = faults + Faults(out, l)
        /\ disk' = out.disk
        /\ IF ~out.ok
           THEN /\ log_select' = set_error(ls, "Failed to delete log")
                /\ UNCHANGED current_log
                /\ last' = Applied("DeleteLog", FALSE, "delete", Some(log_id))
           ELSE LET listed == list_logs(out.disk, l.order, l.readable)
                IN  /\ current_log' = ClearDeleted(current_log, log_id)
                    /\ log_select' =
                          IF listed.ok THEN load(ls, listed)
                          ELSE set_error(ls, "Failed to load logs")
                    /\ last' = Applied("DeleteLog", listed.ok,
                                       IF listed.ok THEN "" ELSE "load",
                                       Some(log_id))
        /\ UNCHANGED <<screen, should_quit, qso_entry, qso_list, export>>

\* The warning apply_action formats for a duplicate contact (the contact's
\* call, band and mode are left out of the text)
WarningToday == "Warning: duplicate contact already logged today"

ApplyAddQsoBlocks(qe, qso) ==
    IF current_log = None
    THEN /\ qso_entry' = set_error(qe, "No active log selected")
         /\ last' = Applied("AddQso", TRUE, "no log", None)
         /\ UNCHANGED <<disk, faults, screen, current_log, should_quit,
                        log_select, qso_list, export>>
    ELSE LET log == Unwrap(current_log)
             duplicate_warning == find_duplicates(log, qso, now) # {}
         IN  \E out \in append_qso(disk, log.log_id, qso) :
                /\ Allowed(out)
                /\ Spend(out)
                /\ IF ~out.ok
                   THEN /\ qso_entry' = set_error(qe, "Failed to save QSO")
                        /\ disk' = out.disk
                        /\ UNCHANGED current_log
                   ELSE IF duplicate_warning
                   THEN /\ qso_entry' = set_error(qe, WarningToday)
                        /\ UNCHANGED <<disk, current_log>>
                   ELSE /\ current_log' = Some(add_qso(log, qso))
                        /\ disk' = out.disk
                        /\ qso_entry' =
                              clear_fast_fields(add_recent_qso(qe, qso))
                /\ last' = [Applied("AddQso", out.ok,
                                    IF out.ok THEN "" ELSE "append",
                                    Some(log.log_id))
                               EXCEPT !.qso = Some(qso)]
                /\ UNCHANGED <<screen, should_quit, log_select, qso_list,
                               export>>

ApplyAddQsoEager(qe, qso) ==
    IF current_log = None
    THEN /\ qso_entry' = set_error(qe, "No active log selected")
         /\ last' = Applied("AddQso", TRUE, "no log", None)
         /\ UNCHANGED <<disk, faults, screen, current_log, should_quit,
                        log_select, qso_list, export>>
    ELSE LET log == Unwrap(current_log)
             duplicate_warning == find_duplicates(log, qso, now) # {}
         IN  \E out \in append_qso(disk, log.log_id, qso) :
                /\ Allowed(out)
                /\ Spend(out)
                /\ disk' = out.disk
                /\ IF ~out.ok
                   THEN /\ qso_entry' = set_error(qe, "Failed to save QSO")
                        /\ current_log' = Some(add_qso(log, qso))
                   ELSE /\ current_log' = Some(add_qso(log, qso))
                        /\ qso_entry' =
                              LET cleared ==
                                    clear_fast_fields(add_recent_qso(qe, qso))
                              IN  IF duplicate_warning
                                  THEN set_error(cleared, WarningToday)
                                  ELSE cleared
                /\ last' = [Applied("AddQso", out.ok,
                                    IF out.ok THEN "" ELSE "append",
                                    Some(log.log_id))
                               EXCEPT !.qso = Some(qso)]
                /\ UNCHANGED <<screen, should_quit, log_select, qso_list,
                               export>>

ApplyAddQso(qe, qso) ==
    IF current_log = None
    THEN /\ qso_entry' = set_error(qe, "No active log selected")
         /\ last' = Applied("AddQso", TRUE, "no log", None)
         /\ UNCHANGED <<disk, faults, screen, current_log, should_quit,
                        log_select, qso_list, export>>
    ELSE LET log == Unwrap(current_log)
             duplicate_warning == find_duplicates(log, qso, now) # {}
         IN  \E out \in append_qso(disk, log.log_id, qso) :
                /\ Allowed(out)
                /\ Spend(out)
                /\ disk' = out.disk
                /\ IF ~out.ok
                   THEN /\ qso_entry' = set_error(qe, "Failed to save QSO")
                        /\ UNCHANGED current_log
                   ELSE /\ current_log' = Some(add_qso(log, qso))
                        /\ qso_entry' =
                              LET cleared ==
                                    clear_fast_fields(add_recent_qso(qe, qso))
                              IN  IF duplicate_warning
                                  THEN set_error(cleared, WarningToday)
                                  ELSE cleared
                /\ last' = [Applied("AddQso", out.ok,
                                    IF out.ok THEN "" ELSE "append",
                                    Some(log.log_id))
                               EXCEPT !.qso = Some(qso)]
                /\ UNCHANGED <<screen, should_quit, log_select, qso_list,
                               export>>

----------------------------------------------------------------------------
(* tui/app.rs: App::handle_key, one action per key the screens tell apart *)

Running == ~should_quit /\ events < MaxEvents
\* The text of the Log Create form is followed in SpecForm only: here
\* LogCreateSubmit draws the log the form builds and log_create stays as
\* LogCreateState::new (and LogCreateState::reset) leave it.
Handled == events' = events + 1 /\ UNCHANGED <<now, log_create, main>>

\* '?' on any screen but the two forms.  The step is recorded with the
\* screen Help was opened from ('?' on Help itself opens nothing).
Opened(from) ==
    [op |-> "Help", ok |-> TRUE, why |-> "", log_id |-> None, log |-> None,
     qso |-> None, from |-> from]

KeyHelpEverywhere ==
    /\ Running
    /\ screen' = "Help"
    /\ last' = Opened(IF screen = "Help" THEN last.from ELSE screen)
    /\ Handled
    /\ UNCHANGED <<disk, faults, current_log, should_quit, log_select,
                   qso_entry, qso_list, export>>

KeyHelp ==
    /\ Running
    /\ screen \notin {"LogCreate", "QsoEntry"}
    /\ screen' = "Help"
    /\ last' = Opened(IF screen = "Help" THEN last.from ELSE screen)
    /\ Handled
    /\ UNCHANGED <<disk, faults, current_log, should_quit, log_select,
                   qso_entry, qso_list, export>>

\* Help: q or Esc
HelpBack ==
    /\ Running
    /\ screen = "Help"
    /\ NavigateLogSelect(log_select, qso_entry, "Navigate")
    /\ Handled

\* Log Select
select_prev(ls) ==
    [ls EXCEPT !.selected = IF @ # None /\ Unwrap(@) > 0
                            THEN Some(Unwrap(@) - 1) ELSE @]
SelectNextWraps(ls) ==
    [ls EXCEPT !.selected = IF @ # None
                            THEN Some((Unwrap(@) + 1) % Len(ls.logs)) ELSE @]
select_next(ls) ==
    [ls EXCEPT !.selected = IF @ # None /\ Unwrap(@) + 1 < Len(ls.logs)
                            THEN Some(Unwrap(@) + 1) ELSE @]
Highlighted(ls) ==
    IF ls.selected # None /\ Unwrap(ls.selected) + 1 \in 1..Len(ls.logs)
    THEN Some(ls.logs[Unwrap(ls.selected) + 1])
    ELSE None

Browsing ==
    Running /\ screen = "LogSelect" /\ log_select.pending_delete = None
Confirming ==
    Running /\ screen = "LogSelect" /\ log_select.pending_delete # None

LogSelectUp ==
    Browsing /\ ApplyNone(select_prev(log_select), qso_entry)
             /\ Handled

LogSelectDown ==
    Browsing /\ ApplyNone(select_next(log_select), qso_entry)
             /\ Handled

LogSelectEnterAlways ==
    /\ Browsing
    /\ IF Highlighted(log_select) # None
       THEN ApplySelectLog(Unwrap(Highlighted(log_select)))
       ELSE NavigateQsoEntry("SelectLog")
    /\ Handled

LogSelectEnter ==
    /\ Browsing
    /\ IF Highlighted(log_select) # None
       THEN ApplySelectLog(Unwrap(Highlighted(log_select)))
       ELSE ApplyNone(log_select, qso_entry)
    /\ Handled

LogSelectNew == Browsing /\ NavigateLogCreate("Navigate") /\ Handled

LogSelectQuit == Browsing /\ ApplyQuit /\ Handled

\* d: ask before deleting the highlighted log; nothing on an empty list
LogSelectDeleteFirst ==
    /\ Browsing
    /\ ApplyNone(IF Highlighted(log_select) # None
                 THEN [log_select EXCEPT !.pending_delete =
                          Some(log_select.logs[1].log_id)]
                 ELSE log_select,
                 qso_entry)
    /\ Handled

LogSelectDelete ==
    /\ Browsing
    /\ ApplyNone(IF Highlighted(log_select) # None
                 THEN [log_select EXCEPT !.pending_delete =
                          Some(Unwrap(Highlighted(log_select)).log_id)]
                 ELSE log_select,
                 qso_entry)
    /\ Handled

\* y: confirmed
LogSelectConfirm ==
    /\ Confirming
    /\ ApplyDeleteLog([log_select EXCEPT !.pending_delete = None],
                      Unwrap(log_select.pending_delete))
    /\ Handled

\* n or Esc: not confirmed
LogSelectCancel ==
    /\ Confirming
    /\ ApplyNone([log_select EXCEPT !.pending_delete = None], qso_entry)
    /\ Handled

\* Log Create: Enter on a valid form, and Esc
CreateInputs(t) ==
    {GeneralLogNew(W1AWP, None, FN31, t),
     PotaLogNew(W1AW, Some(W1AW), Some(K0001), FN31, t)}

LogCreateSubmit ==
    /\ Running
    /\ screen = "LogCreate"
    /\ \E log \in CreateInputs(now) :
          Room(log_path(log.log_id)) /\ ApplyCreateLog(log)
    /\ Handled

LogCreateEsc ==
    /\ Running
    /\ screen = "LogCreate"
    /\ NavigateLogSelect(log_select, qso_entry, "Navigate")
    /\ Handled

\* QSO Entry: Enter on a valid form
EditedQso(c) ==
    LET index == Unwrap(qso_entry.editing)
        qsos == IF current_log = None THEN <<>>
                ELSE Unwrap(current_log).qsos
    IN  Qso(c, "20M", "SSB",
            IF index + 1 \in 1..Len(qsos) THEN qsos[index + 1].timestamp
            ELSE now)

QsoEntrySubmit ==
    /\ Running
    /\ screen = "QsoEntry"
    /\ \E c \in Calls :
          LET qe == [qso_entry EXCEPT !.error = None]
          IN  IF qso_entry.editing = None
              THEN /\ current_log # None =>
                          Len(Unwrap(current_log).qsos) < MaxQsos
                   /\ ApplyAddQso(qe, Qso(c, "20M", "SSB", now))
              ELSE ApplyUpdateQso(qe, Unwrap(qso_entry.editing),
                                  EditedQso(c))
    /\ Handled

\* QSO Entry: Enter on a form that does not validate
QsoEntrySubmitInvalid ==
    /\ Running
    /\ screen = "QsoEntry"
    /\ ApplyNone(log_select, [qso_entry EXCEPT !.error = None])
    /\ Handled

\* QSO Entry: a character, Backspace, Tab, BackTab or a band or mode
\* cycling key.  They change the form's text, focus, band or mode, which
\* are not kept here, and yield Action::None.
QsoEntryEdit ==
    /\ Running
    /\ screen = "QsoEntry"
    /\ ApplyNone(log_select, qso_entry)
    /\ Handled

QsoEntryEsc ==
    /\ Running
    /\ screen = "QsoEntry"
    /\ IF qso_entry.editing # None
       THEN NavigateQsoList(clear_editing(qso_entry), "Navigate")
       ELSE NavigateLogSelect(log_select, qso_entry, "Navigate")
    /\ Handled

QsoEntryAltE ==
    /\ Running
    /\ screen = "QsoEntry"
    /\ NavigateQsoList(qso_entry, "Navigate")
    /\ Handled

QsoEntryAltX ==
    /\ Running
    /\ screen = "QsoEntry"
    /\ NavigateExport("Navigate")
    /\ Handled

\* QSO List
qso_count ==
    IF current_log = None THEN 0 ELSE Len(Unwrap(current_log).qsos)

QsoListMoveUnclamped ==
    /\ Running
    /\ screen = "QsoList"
    /\ \E to \in {IF qso_list.selected > 0 THEN qso_list.selected - 1 ELSE 0,
                  qso_list.selected + 1,
                  0,
                  IF qso_count > 0 THEN qso_count - 1 ELSE 0} :
          qso_list' = [selected |-> to]
    /\ last' = Applied("None", TRUE, "", None)
    /\ Handled
    /\ UNCHANGED <<disk, faults, screen, current_log, should_quit,
                   log_select, qso_entry, export>>

QsoListMove ==
    /\ Running
    /\ screen = "QsoList"
    /\ \E to \in {IF qso_list.selected > 0 THEN qso_list.selected - 1 ELSE 0,
                  IF qso_count > 0
                  THEN Min(qso_list.selected + 1, qso_count - 1)
                  ELSE qso_list.selected,
                  0,
                  IF qso_count > 0 THEN qso_count - 1 ELSE 0} :
          qso_list' = [selected |-> to]
    /\ last' = Applied("None", TRUE, "", None)
    /\ Handled
    /\ UNCHANGED <<disk, faults, screen, current_log, should_quit,
                   log_select, qso_entry, export>>

QsoListEnter ==
    /\ Running
    /\ screen = "QsoList"
    /\ IF qso_count > 0 THEN ApplyEditQso(qso_list.selected)
       ELSE ApplyNone(log_select, qso_entry)
    /\ Handled

QsoListBack ==
    /\ Running
    /\ screen = "QsoList"
    /\ NavigateQsoEntry("Navigate")
    /\ Handled

\* Export: Enter while Ready; Esc or q while Ready, any key otherwise
ExportEnter ==
    /\ Running
    /\ screen = "Export"
    /\ export.status = "Ready"
    /\ \E written \in BOOLEAN : ApplyExportLog(written)
    /\ Handled

ExportBackReadyOnly ==
    /\ Running
    /\ screen = "Export"
    /\ IF export.status = "Ready" THEN NavigateQsoEntry("Navigate")
       ELSE ApplyNone(log_select, qso_entry)
    /\ Handled

ExportBack ==
    /\ Running
    /\ screen = "Export"
    /\ NavigateQsoEntry("Navigate")
    /\ Handled

\* The clock.  Only the two forms read it (Utc::now() in a log's constructor
\* and in a contact), so time is let pass while one of them is shown.
Tick ==
    /\ ~should_quit
    /\ screen \in {"LogCreate", "QsoEntry"}
    /\ now < MaxTime
    /\ now' = now + 1
    /\ UNCHANGED <<disk, faults, events, last, appVars>>

\* The directory App::new finds: empty on a first run, or the files earlier
\* runs saved.
FirstLog == PotaLogNew(W1AW, Some(W1AW), Some(K0001), FN31, 0)
SecondLog == FieldDayLogNew(W1AW, None, FN31, 1, "B", EPA, "Low", 0)
Saved(d, log) ==
    WriteFile(d, log_path(log.log_id), File(SaveLines(log), FALSE))
InitDirs ==
    {EmptyDir,
     Saved(EmptyDir, add_qso(FirstLog, Qso(KD9XYZ, "20M", "SSB", 0))),
     Saved(Saved(EmptyDir,
                 add_qso(add_qso(FirstLog, Qso(KD9XYZ, "20M", "SSB", 0)),
                         Qso(N0CALL, "20M", "SSB", 0))),
           add_qso(SecondLog, Qso(KD9XYZ, "20M", "SSB", 0)))}

\* App::new
Init ==
    /\ now = 0
    /\ disk \in InitDirs
    /\ faults = 0
    /\ events = 0
    /\ last = NoOp
    /\ screen = "LogSelect"
    /\ current_log = None
    /\ should_quit = FALSE
    /\ \E order \in ScanOrders(disk) :
          log_select = load([logs |-> <<>>, selected |-> None,
                             error |-> None, pending_delete |-> None],
                            list_logs(disk, order, TRUE))
    /\ log_create = LogCreateNew
    /\ qso_entry = [recent_qsos |-> <<>>, error |-> None, editing |-> None]
    /\ qso_list = [selected |-> 0]
    /\ export = [status |-> "Ready", qso_count |-> 0]
    /\ main = MainRunning

Next ==
    \/ Tick
    \/ KeyHelp
    \/ HelpBack
    \/ LogSelectUp
    \/ LogSelectDown
    \/ LogSelectEnter
    \/ LogSelectNew
    \/ LogSelectQuit
    \/ LogSelectDelete
    \/ LogSelectConfirm
    \/ LogSelectCancel
    \/ LogCreateSubmit
    \/ LogCreateEsc
    \/ QsoEntrySubmit
    \/ QsoEntrySubmitInvalid
    \/ QsoEntryEdit
    \/ QsoEntryEsc
    \/ QsoEntryAltE
    \/ QsoEntryAltX
    \/ QsoListMove
    \/ QsoListEnter
    \/ QsoListBack
    \/ ExportEnter
    \/ ExportBack

Spec == Init /\ [][Next]_vars

----------------------------------------------------------------------------
(* main.rs: fn main from its first call to its return.  Each fallible call *)
(* succeeds or fails; `?` returns from main at once.                       *)

\* The process starts: nothing has been called yet.  The fields of App are
\* given the values App::new builds them with.
MainInit ==
    /\ now = 0
    /\ disk \in InitDirs
    /\ faults = 0
    /\ events = 0
    /\ last = NoOp
    /\ screen = "LogSelect"
    /\ current_log = None
    /\ should_quit = FALSE
    /\ log_select = [logs |-> <<>>, selected |-> None, error |-> None,
                     pending_delete |-> None]
    /\ log_create = LogCreateNew
    /\ qso_entry = [recent_qsos |-> <<>>, error |-> None, editing |-> None]
    /\ qso_list = [selected |-> 0]
    /\ export = [status |-> "Ready", qso_count |-> 0]
    /\ main = [pc |-> "enable_raw_mode", raw_mode |-> FALSE,
               alternate_screen |-> FALSE, restored |-> FALSE,
               result |-> "none"]

\* enable_raw_mode()?
MainEnableRawMode ==
    /\ main.pc = "enable_raw_mode"
    /\ \E ok \in BOOLEAN :
          main' = IF ok
                  THEN [main EXCEPT !.pc = "enter_alternate_screen",
                                    !.raw_mode = TRUE]
                  ELSE [main EXCEPT !.pc = "exited", !.result = "err"]
    /\ UNCHANGED <<now, disk, faults, events, last, screen, current_log,
                   should_quit, log_select, log_create, qso_entry, qso_list,
                   export>>

\* execute!(stdout(), EnterAlternateScreen)?
MainEnterAlternateScreen ==
    /\ main.pc = "enter_alternate_screen"
    /\ \E ok \in BOOLEAN :
          main' = IF ok
                  THEN [main EXCEPT !.pc = "terminal_new",
                                    !.alternate_screen = TRUE]
                  ELSE [main EXCEPT !.pc = "exited", !.result = "err"]
    /\ UNCHANGED <<now, disk, faults, events, last, screen, current_log,
                   should_quit, log_select, log_create, qso_entry, qso_list,
                   export>>

\* Terminal::new(CrosstermBackend::new(stdout()))?
MainTerminalNew ==
    /\ main.pc = "terminal_new"
    /\ \E ok \in BOOLEAN :
          main' = IF ok THEN [main EXCEPT !.pc = "manager_new"]
                  ELSE [main EXCEPT !.pc = "exited", !.result = "err"]
    /\ UNCHANGED <<now, disk, faults, events, last, screen, current_log,
                   should_quit, log_select, log_create, qso_entry, qso_list,
                   export>>

\* LogManager::new()?
MainManagerNew ==
    /\ main.pc = "manager_new"
    /\ \E ok \in BOOLEAN :
          main' = IF ok THEN [main EXCEPT !.pc = "app_new"]
                  ELSE [main EXCEPT !.pc = "exited", !.result = "err"]
    /\ UNCHANGED <<now, disk, faults, events, last, screen, current_log,
                   should_quit, log_select, log_create, qso_entry, qso_list,
                   export>>

\* App::new(manager)?: the initial log list is loaded
MainAppNew ==
    /\ main.pc = "app_new"
    /\ \E l \in Listings(disk) :
          IF Listed(l).ok
          THEN /\ log_select' = load(log_select, Listed(l))
               /\ main' = [main EXCEPT !.pc = "run"]
          ELSE /\ main' = [main EXCEPT !.pc = "exited", !.result = "err"]
               /\ UNCHANGED log_select
    /\ UNCHANGED <<now, disk, faults, events, last, screen, current_log,
                   should_quit, log_create, qso_entry, qso_list, export>>

\* App::run: one turn of the loop that handles a key
MainHandleKey == main.pc = "run" /\ Next

\* restore_terminal: both calls are made, each may fail
restore_terminal(m, raw_ok, screen_ok) ==
    [m EXCEPT !.raw_mode = IF raw_ok THEN FALSE ELSE @,
              !.alternate_screen = IF screen_ok THEN FALSE ELSE @,
              !.restored = TRUE]

\* App::run returns, Ok(()) once should_quit is set or the error of
\* terminal.draw or event::read; main restores the terminal and returns.
MainRunReturns ==
    /\ main.pc = "run"
    /\ \E failed, raw_ok, screen_ok \in BOOLEAN :
          /\ failed = ~should_quit
          /\ main' = [restore_terminal(main, raw_ok, screen_ok)
                         EXCEPT !.pc = "exited",
                                !.result = IF failed \/ ~raw_ok \/ ~screen_ok
                                           THEN "err" ELSE "ok"]
    /\ UNCHANGED <<now, disk, faults, events, last, screen, current_log,
                   should_quit, log_select, log_create, qso_entry, qso_list,
                   export>>

MainNext ==
    \/ MainEnableRawMode
    \/ MainEnterAlternateScreen
    \/ MainTerminalNew
    \/ MainManagerNew
    \/ MainAppNew
    \/ MainHandleKey
    \/ MainRunReturns

SpecMain == MainInit /\ [][MainNext]_vars

----------------------------------------------------------------------------
(* model/log: one log driven through its own interface *)

\* Callsigns of different stations, and one of them as typed in lower case
Call(k) == <<"W", UpperCase[k]>>
LowerCall(k) == <<"w", LowerCase[k]>>

\* A log of the given header holding contacts with n different stations,
\* all made at time 0 on 20M SSB
LogWith(h, n) ==
    [h EXCEPT !.qsos = [k \in 1..n |-> Qso(Call(k), "20M", "SSB", 0)]]

\* Contacts added at time t: the first station again, as stored or in
\* lower case, on another band, or in another mode
LgInputs(t) ==
    {Qso(Call(1), "20M", "SSB", t), Qso(LowerCall(1), "20M", "SSB", t),
     Qso(Call(1), "40M", "SSB", t), Qso(Call(1), "20M", "CW", t)}

Days == 0..DateNaive(MaxTime)

\* What the last step did and what the log answers after it: the contacts
\* find_duplicates returned for the added contact before it was added, the
\* unique-contact count of every date, and the activation status.
Asked(op, qso, dups, log, t) ==
    [op |-> op, qso |-> qso, dups |-> dups,
     counts |-> [d \in Days |-> qso_count_on_date(log, d)],
     needs |-> needs_for_activation(log, t),
     activated |-> is_activated(log, t)]

LgInit ==
    /\ now = 0
    /\ disk = EmptyDir
    /\ faults = 0
    /\ events = 0
    /\ current_log \in {Some(LogWith(h, n)) :
                            h \in NewLogs(0), n \in 0..MaxUnique}
    /\ last = Asked("new", None, {}, Unwrap(current_log), 0)
    /\ ScreensInit

LgAddQso ==
    \E qso \in LgInputs(now) :
        LET log == Unwrap(current_log)
        IN  /\ events < MaxAdds
            /\ events' = events + 1
            /\ current_log' = Some(add_qso(log, qso))
            /\ last' = Asked("add_qso", Some(qso),
                             find_duplicates(log, qso, now),
                             add_qso(log, qso), now)
            /\ UNCHANGED <<now, disk, faults, screen, should_quit,
                           log_select, log_create, qso_entry, qso_list,
                           export, main>>

LgTick ==
    /\ now < MaxTime
    /\ now' = now + 1
    /\ last' = Asked("tick", None, {}, Unwrap(current_log), now + 1)
    /\ UNCHANGED <<disk, faults, events, appVars>>

LgNext == LgAddQso \/ LgTick

SpecLog == LgInit /\ [][LgNext]_vars

----------------------------------------------------------------------------
(* storage/manager.rs: one call on a directory earlier runs left *)

\* Logs that differ from the first in the case of their text, in one field,
\* in the day they were created, or in their type
DirLogs ==
    {PotaLogNew(W1AW, Some(W1AW), Some(K0001), FN31, 0),
     PotaLogNew(to_lowercase(W1AW), Some(to_lowercase(W1AW)),
                Some(to_lowercase(K0001)), to_lowercase(FN31), 0),
     PotaLogNew(W1AW, None, Some(K0001), FN31, 0),
     PotaLogNew(W1AW, Some(W1AW), None, FN31, 0),
     PotaLogNew(W1AW, Some(W1AW), Some(K0001), <<"F", "N", "3", "2">>, 0),
     PotaLogNew(W1AWP, Some(W1AW), Some(K0001), FN31, 0),
     PotaLogNew(W1AW, Some(W1AW), Some(K0001), FN31, MaxTime),
     GeneralLogNew(to_lowercase(W1AW), Some(W1AW), FN31, 0),
     GeneralLogNew(W1AW, Some(to_lowercase(W1AW)), to_lowercase(FN31), 0),
     FieldDayLogNew(W1AW, Some(W1AW), FN31, 1, "B", EPA, "Low", 0)}

\* Files load_log_from_path cannot load: an empty file, a first line that
\* is not metadata, and a contact line that is not a contact after one
\* that is
Unloadable(log) ==
    {File(<<>>, FALSE), File(<<BadLine>>, FALSE),
     File(<<FromLog(log), QsoLine(Qso(KD9XYZ, "20M", "SSB", 0)), BadLine>>,
          FALSE)}

\* Directories of at most MaxFiles files: saved logs and at most one file
\* that cannot be loaded
RECURSIVE DirsOf(_)
DirsOf(n) ==
    IF n = 0 THEN {EmptyDir}
    ELSE LET smaller == DirsOf(n - 1)
         IN  smaller
             \cup {Saved(d, log) : d \in smaller, log \in DirLogs}
             \cup UNION {{WriteFile(d, log_path(log.log_id), f) :
                            d \in {e \in smaller :
                                      \A p \in DOMAIN e : LoadFile(e[p]).ok},
                            f \in Unloadable(log)} :
                         log \in {l \in DirLogs : l.variant # "Pota"}}

DrInit ==
    /\ now = 0
    /\ disk \in {d \in DirsOf(MaxFiles) : Cardinality(DOMAIN d) <= MaxFiles}
    /\ faults = 0
    /\ events = 0
    /\ last = NoOp
    /\ AppInit

DrCreateLog ==
    \E log \in DirLogs :
        /\ events = 0
        /\ events' = 1
        /\ \E out \in create_log(disk, log) :
              /\ Allowed(out)
              /\ Spend(out)
              /\ disk' = out.disk
              /\ last' = [Did("create_log", out.ok, Some(log.log_id),
                               Some(log), None)
                              EXCEPT !.why = out.err]
        /\ UNCHANGED <<now, appVars>>

\* list_logs; the list it returned is kept in last.log
DrListLogs ==
    \E order \in ScanOrders(disk) :
        LET listed == list_logs(disk, order, TRUE)
        IN  /\ events = 0
            /\ events' = 1
            /\ last' = [Did("list_logs", listed.ok, None,
                             IF listed.ok THEN Some(listed.value) ELSE None,
                             None)
                            EXCEPT !.why = listed.err]
            /\ UNCHANGED <<now, disk, faults, appVars>>

DrLoadLog ==
    \E log \in DirLogs :
        LET loaded == load_log(disk, log.log_id)
        IN  /\ events = 0
            /\ events' = 1
            /\ last' = [Did("load_log", loaded.ok, Some(log.log_id),
                             IF loaded.ok THEN Some(loaded.value) ELSE None,
                             None)
                            EXCEPT !.why = loaded.err]
            /\ UNCHANGED <<now, disk, faults, appVars>>

DrNext == DrCreateLog \/ DrListLogs \/ DrLoadLog

SpecDir == DrInit /\ [][DrNext]_vars

----------------------------------------------------------------------------
(* tui/screens/log_create.rs and qso_entry.rs: the two forms under the    *)
(* keys that edit them, dispatched by App::handle_key                      *)

\* tui/screens/qso_entry.rs: field indices
THEIR_CALL == 0
RST_SENT == 1
RST_RCVD == 2
THEIR_PARK == 3
COMMENTS == 4

\* model/mode.rs
ALL_MODES ==
    <<"SSB", "CW", "FT8", "FT4", "JS8", "PSK31", "RTTY", "FM", "AM", "DIGI">>

default_rst(mode) ==
    CASE mode \in {"SSB", "FM", "AM"} -> <<"5", "9">>
      [] mode \in {"CW", "PSK31", "RTTY"} -> <<"5", "9", "9">>
      [] OTHER -> <<"-", "1", "0">>

\* cycle: the item after (before) the current one, wrapping around
cycle(items, current, forward) ==
    LET pos == IF \E i \in DOMAIN items : items[i] = current
               THEN (CHOOSE i \in DOMAIN items : items[i] = current) - 1
               ELSE 0
        next == IF forward THEN (pos + 1) % Len(items)
                ELSE (pos + Len(items) - 1) % Len(items)
    IN  items[next + 1]

\* QsoEntryState::new (the band is left out)
QsoEntryNew ==
    [form |-> [values |-> <<<<>>, default_rst("SSB"), default_rst("SSB"),
                            <<>>, <<>>>>,
               focus |-> 0],
     mode |-> "SSB",
     recent_qsos |-> <<>>, error |-> None, editing |-> None]

\* QsoEntryState::cycle_mode
cycle_mode(qe, forward) ==
    LET old_rst == default_rst(qe.mode)
        mode == cycle(ALL_MODES, qe.mode, forward)
        new_rst == default_rst(mode)
        sent == IF value(qe.form, RST_SENT) = old_rst
                THEN set_value(qe.form, RST_SENT, new_rst)
                ELSE qe.form
        rcvd == IF value(sent, RST_RCVD) = old_rst
                THEN set_value(sent, RST_RCVD, new_rst)
                ELSE sent
    IN  [qe EXCEPT !.mode = mode, !.form = rcvd]

\* The characters typed: a letter, a digit and the question mark
Chars == {"a", "9", "?"}

\* What the last key was, and which RST fields hold text the operator
\* typed or cut, other than the mode's default, since the program last
\* filled them
Typed(key, by_hand) == [op |-> key, by_hand |-> by_hand]

\* LogCreateState::handle_key: Tab, BackTab, Left, Right, a character and
\* Backspace, each yielding Action::None
LogCreateKey ==
    /\ Running
    /\ screen = "LogCreate"
    /\ \E k \in {"Tab", "BackTab", "Left", "Right", "Backspace"} \cup Chars :
          LET lc == log_create
              n == Len(lc.form.values)
              fields == lc.focus_area = "Fields"
              focus == lc.form.focus
              synced == sync_buffers_from_form(lc)
              turned == [synced EXCEPT
                            !.log_type = LogTypeStep(@, k = "Right")]
              should_uppercase ==
                  \/ focus = CALLSIGN
                  \/ focus = OPERATOR
                  \/ lc.log_type = "Pota" /\ focus = POTA_PARK_REF
                  \/ /\ lc.log_type \in {"FieldDay", "WinterFieldDay"}
                     /\ focus \in {CONTEST_CLASS, CONTEST_SECTION}
          IN  /\ log_create' =
                    CASE k = "Tab" ->
                            IF ~fields
                            THEN [lc EXCEPT !.focus_area = "Fields",
                                            !.form.focus = 0]
                            ELSE IF focus = saturating_sub(n, 1)
                            THEN [lc EXCEPT !.focus_area = "TypeSelector"]
                            ELSE [lc EXCEPT !.form.focus = (focus + 1) % n]
                      [] k = "BackTab" ->
                            IF ~fields
                            THEN [lc EXCEPT !.focus_area = "Fields",
                                            !.form.focus =
                                                saturating_sub(n, 1)]
                            ELSE IF focus = 0
                            THEN [lc EXCEPT !.focus_area = "TypeSelector"]
                            ELSE [lc EXCEPT
                                     !.form.focus = (focus + n - 1) % n]
                      [] k \in {"Left", "Right"} ->
                            IF fields THEN lc
                            ELSE [turned EXCEPT
                                     !.form = build_form_for_type(turned)]
                      [] k = "Backspace" ->
                            IF fields
                            THEN [lc EXCEPT !.form = delete_char(@)]
                            ELSE lc
                      [] OTHER ->
                            IF fields
                            THEN [lc EXCEPT !.form =
                                     insert_char(@,
                                         IF should_uppercase
                                         THEN to_ascii_uppercase(k)
                                         ELSE k)]
                            ELSE lc
              /\ last' = Typed(k, {})
    /\ events' = events + 1
    /\ UNCHANGED <<now, disk, faults, screen, current_log, should_quit,
                   log_select, qso_entry, qso_list, export, main>>

\* QsoEntryState::handle_key: Alt+m, Shift+Alt+M, Tab, BackTab, Backspace
\* and a character, each yielding Action::None
QsoEntryKey ==
    /\ Running
    /\ screen = "QsoEntry"
    /\ \E k \in {"Alt+m", "Shift+Alt+M", "Tab", "BackTab", "Backspace"}
                 \cup Chars :
          LET qe == qso_entry
              n == Len(qe.form.values)
              focus == qe.form.focus
              rst == {RST_SENT, RST_RCVD}
              old_rst == default_rst(qe.mode)
              should_uppercase == focus = THEIR_CALL \/ focus = THEIR_PARK
          IN  /\ qso_entry' =
                    CASE k = "Alt+m" -> cycle_mode(qe, TRUE)
                      [] k = "Shift+Alt+M" -> cycle_mode(qe, FALSE)
                      [] k = "Tab" ->
                            [qe EXCEPT !.form.focus = (focus + 1) % n]
                      [] k = "BackTab" ->
                            [qe EXCEPT !.form.focus = (focus + n - 1) % n]
                      [] k = "Backspace" ->
                            [qe EXCEPT !.form = delete_char(@)]
                      [] OTHER ->
                            [qe EXCEPT !.form =
                                insert_char(@,
                                    IF should_uppercase
                                    THEN to_ascii_uppercase(k)
                                    ELSE k)]
              /\ last' =
                    Typed(k,
                          CASE k \in {"Alt+m", "Shift+Alt+M"} ->
                                  {f \in last.by_hand :
                                      value(qe.form, f) # old_rst}
                            [] k \in {"Backspace"} \cup Chars ->
                                  IF value(qso_entry'.form, focus) # old_rst
                                  THEN last.by_hand \cup ({focus} \cap rst)
                                  ELSE last.by_hand \ {focus}
                            [] OTHER -> last.by_hand)
    /\ Handled
    /\ UNCHANGED <<disk, faults, screen, current_log, should_quit,
                   log_select, qso_list, export, main>>

\* Log Create after the operator chose a type on the cleared form, typed
\* a letter into each of its fields and tabbed back to the type selector
LogCreateFilled(log_type) ==
    LET lc == [LogCreateNew EXCEPT !.log_type = log_type]
        n == Len(build_form_for_type(lc).values)
    IN  [lc EXCEPT !.form = [values |-> [i \in 1..n |-> <<UpperCase[i]>>],
                             focus |-> n - 1]]

\* The shell on any screen a key can be pressed on before Help is opened;
\* QSO Entry as constructed, Log Create as constructed or filled in
FmInit ==
    /\ now = 0
    /\ faults = 0
    /\ events = 0
    /\ last = Typed("none", {})
    /\ main = MainRunning
    /\ screen \in Screens \ {"Help"}
    /\ should_quit = FALSE
    /\ disk = Saved(EmptyDir, FirstLog)
    /\ current_log = IF screen \in {"LogSelect", "LogCreate"} THEN None
                     ELSE Some(FirstLog)
    /\ log_select = [logs |-> <<FirstLog>>, selected |-> Some(0),
                     error |-> None, pending_delete |-> None]
    /\ log_create \in
          {LogCreateNew}
          \cup (IF screen = "LogCreate"
                THEN {LogCreateFilled(t) :
                         t \in {"General", "Pota", "FieldDay",
                                "WinterFieldDay"}}
                ELSE {})
    /\ qso_entry = QsoEntryNew
    /\ qso_list = [selected |-> 0]
    /\ export \in {[status |-> st, qso_count |-> 0] :
                      st \in IF screen = "Export"
                             THEN {"Ready", "Success", "Error"}
                             ELSE {"Ready"}}

FmNext == KeyHelp \/ LogCreateKey \/ QsoEntryKey

SpecForm == FmInit /\ [][FmNext]_vars

----------------------------------------------------------------------------
(* Storage claims *)

StoreOps == {"save_log", "append_qso", "create_log", "delete_log"}

\* A step in which one storage call was made
CallStep == events' # events

\* C2: a contact appended successfully to a log that loads is, on the next
\* load, the last contact of that log, after the contacts the file held,
\* which come back unchanged and in the same order.
C2_AppendKeepsOrder ==
    [][(/\ CallStep
        /\ last'.op = "append_qso"
        /\ last'.ok
        /\ load_log(disk, Unwrap(last'.log_id)).ok)
       => LET before == load_log(disk, Unwrap(last'.log_id)).value
              after == load_log(disk', Unwrap(last'.log_id))
          IN  /\ after.ok
              /\ after.value = add_qso(before, Unwrap(last'.qso))]_vars

C4_NeverPartiallyApplied ==
    [][CallStep =>
          /\ (last'.op \in StoreOps /\ ~last'.ok) =>
                \A p \in DOMAIN disk :
                    load_log_from_path(disk, p).ok =>
                        load_log_from_path(disk', p) =
                            load_log_from_path(disk, p)
          /\ \A p \in DOMAIN disk' :
                (\E i \in 1..Len(disk'[p].lines) :
                        disk'[p].lines[i].kind = "qso")
                    => disk'[p].lines[1].kind = "meta"]_vars

\* C30: after save_log succeeds for a log whose log_id contains '/',
\* load_log of that id succeeds and returns a log with exactly that id,
\* the log's file is named by the id with every '/' replaced by '_', and
\* no file name in the storage directory contains '/' (every file lies
\* directly in the directory).
C30_SlashRoundTrip ==
    (/\ last.op = "save_log"
     /\ last.ok
     /\ \E i \in DOMAIN Unwrap(last.log_id) : Unwrap(last.log_id)[i] = "/")
        => LET id == Unwrap(last.log_id)
               loaded == load_log(disk, id)
           IN  /\ loaded.ok
               /\ loaded.value.log_id = id
               /\ loaded.value = Unwrap(last.log)
               /\ \E p \in DOMAIN disk :
                     /\ Len(p) = Len(id)
                     /\ \A i \in DOMAIN id :
                           p[i] = IF id[i] = "/" THEN "_" ELSE id[i]
               /\ \A p \in DOMAIN disk : \A i \in DOMAIN p : p[i] # "/"

\* C30 witness: a log with a contact, made for the callsign W1AW/P, was
\* saved and its file is there.
C30_Witness ==
    /\ last.op = "save_log"
    /\ last.ok
    /\ Unwrap(last.log).station_callsign = W1AWP
    /\ SubSeq(Unwrap(last.log_id), 1, 6) = W1AWP
    /\ Len(Unwrap(last.log).qsos) > 0
    /\ log_path(Unwrap(last.log_id)) \in DOMAIN disk

----------------------------------------------------------------------------
(* Shell claims *)

\* A step in which App::handle_key handled a key
KeyStep == events' # events

\* C1: when AddQso's append to storage fails, the active log and the recent
\* contacts are as before and QSO Entry shows an error; the active log
\* gains a contact through AddQso only when the append succeeded.
C1_AppendFailureKeepsMemory ==
    [][(KeyStep /\ last'.op = "AddQso" /\ current_log # None) =>
          /\ ~last'.ok =>
                /\ current_log' = current_log
                /\ qso_entry'.recent_qsos = qso_entry.recent_qsos
                /\ qso_entry'.error = Some("Failed to save QSO")
          /\ current_log' # current_log =>
                /\ last'.ok
                /\ disk' # disk]_vars

\* C1 witness: an append failed for a log that already has a contact
C1_Witness ==
    /\ last.op = "AddQso"
    /\ last.why = "append"
    /\ current_log # None
    /\ Len(Unwrap(current_log).qsos) = 1
    /\ Len(qso_entry.recent_qsos) = 1
    /\ qso_entry.error = Some("Failed to save QSO")

\* C5: a storage failure in CreateLog, AddQso, UpdateQso, DeleteLog,
\* ExportLog or Navigate to Log Select puts an error message on a screen,
\* leaves the quit flag clear and the shell on one of its six screens.
C5_StorageFailureIsReported ==
    [][(KeyStep /\ ~last'.ok) =>
          /\ last'.op \in {"CreateLog", "AddQso", "UpdateQso", "DeleteLog",
                           "ExportLog", "Navigate"}
          /\ CASE last'.op \in {"CreateLog", "DeleteLog", "Navigate"} ->
                      log_select'.error # None
               [] last'.op \in {"AddQso", "UpdateQso"} ->
                      qso_entry'.error # None
               [] OTHER -> export'.status = "Error"
          /\ ~should_quit'
          /\ screen' \in Screens]_vars

\* C5 witness: the list could not be loaded on the way to Log Select
C5_Witness ==
    /\ last.op = "Navigate"
    /\ ~last.ok
    /\ screen = "LogSelect"
    /\ log_select.error = Some("Failed to load logs")
    /\ ~should_quit

\* C6: between two adoptions of a log (SelectLog, CreateLog) the active
\* log keeps its header and log_id, and each step leaves its contacts as
\* they are, adds one at the end or replaces one in place.
C6_ActiveLogGrowsOrEdits ==
    [][(/\ current_log # None
        /\ current_log' # None
        /\ last'.op \notin {"SelectLog", "CreateLog"}) =>
          LET old == Unwrap(current_log)
              new == Unwrap(current_log')
          IN  /\ [new EXCEPT !.qsos = <<>>] = [old EXCEPT !.qsos = <<>>]
              /\ \/ new.qsos = old.qsos
                 \/ /\ Len(new.qsos) = Len(old.qsos) + 1
                    /\ SubSeq(new.qsos, 1, Len(old.qsos)) = old.qsos
                 \/ /\ Len(new.qsos) = Len(old.qsos)
                    /\ \E i \in 1..Len(old.qsos) :
                          \A j \in 1..Len(old.qsos) :
                              j # i => new.qsos[j] = old.qsos[j]]_vars

\* C6 witness: a contact of a log with two contacts was replaced in place
C6_Witness ==
    /\ last.op = "UpdateQso"
    /\ last.ok
    /\ current_log # None
    /\ Len(Unwrap(current_log).qsos) = 2
    /\ Unwrap(current_log).qsos[1].their_call = N0CALL
    /\ Unwrap(current_log).qsos[2].their_call = KD9XYZ

C8_CreateAdoptsOnSuccess ==
    [][(KeyStep /\ last'.op = "CreateLog") =>
          IF last'.ok
          THEN /\ current_log' # None
               /\ Unwrap(current_log').log_id = Unwrap(last'.log_id)
               /\ load_log(disk', Unwrap(last'.log_id)) =
                     Ok(Unwrap(current_log'))
               /\ screen' = "QsoEntry"
          ELSE /\ current_log' = current_log
               /\ qso_entry' = qso_entry
               /\ screen' = "LogSelect"
               /\ log_select'.error = Some("Failed to save log")]_vars

\* C8 witness: a save failed while another log was active
C8_Witness ==
    /\ last.op = "CreateLog"
    /\ ~last.ok
    /\ current_log # None
    /\ Unwrap(current_log).log_id # Unwrap(last.log_id)
    /\ screen = "LogSelect"

\* C9: once delete_log has succeeded for an id, the active log is cleared
\* if it has that id and is kept as it was otherwise.
C9_DeleteClearsOnlyDeleted ==
    [][(KeyStep /\ last'.op = "DeleteLog" /\ last'.why # "delete") =>
          IF current_log # None
             /\ Unwrap(current_log).log_id = Unwrap(last'.log_id)
          THEN current_log' = None
          ELSE current_log' = current_log]_vars

\* C9 witness: a log other than the active one was deleted
C9_Witness ==
    /\ last.op = "DeleteLog"
    /\ last.ok
    /\ current_log # None
    /\ Unwrap(current_log).log_id # Unwrap(last.log_id)
    /\ log_path(Unwrap(last.log_id)) \notin DOMAIN disk

\* C10: when delete_log fails, the active log, the cached list and the
\* highlighted row are as before and Log Select shows the delete error.
C10_DeleteFailureKeepsAll ==
    [][(KeyStep /\ last'.op = "DeleteLog" /\ last'.why = "delete") =>
          /\ current_log' = current_log
          /\ log_select'.logs = log_select.logs
          /\ log_select'.selected = log_select.selected
          /\ log_select'.error = Some("Failed to delete log")
          /\ disk' = disk]_vars

\* C10 witness: deleting the active log failed, the second row highlighted
C10_Witness ==
    /\ last.op = "DeleteLog"
    /\ last.why = "delete"
    /\ current_log # None
    /\ Unwrap(current_log).log_id = Unwrap(last.log_id)
    /\ log_select.selected = Some(1)
    /\ log_select.error = Some("Failed to delete log")
\* C11: a duplicate match never blocks logging.  When AddQso is applied
\* for a contact that matches one of the active log under its duplicate
\* rule and the append succeeds, the step is a successful append of that
\* contact to the log's file, the contact is added at the end of the
\* in-memory log, and the warning is set on QSO Entry.
C11_DuplicateNeverBlocks ==
    [][(/\ KeyStep
        /\ last'.op = "AddQso"
        /\ last'.ok
        /\ current_log # None
        /\ find_duplicates(Unwrap(current_log), Unwrap(last'.qso), now) # {})
       => /\ Done(disk') \in append_qso(disk, Unwrap(current_log).log_id,
                                        Unwrap(last'.qso))
          /\ current_log' = Some(add_qso(Unwrap(current_log),
                                         Unwrap(last'.qso)))
          /\ qso_entry'.error # None]_vars

\* A duplicate was logged: the active log holds the same key twice and the
\* warning is shown.
C11_Witness ==
    /\ last.op = "AddQso"
    /\ last.ok
    /\ current_log # None
    /\ qso_entry.error = Some(WarningToday)
    /\ LET qsos == Unwrap(current_log).qsos
       IN  /\ Len(qsos) >= 2
           /\ qsos[Len(qsos)] = Unwrap(last.qso)
           /\ \E i \in 1..(Len(qsos) - 1) :
                 duplicate_key(qsos[i]) = duplicate_key(qsos[Len(qsos)])

\* C12: the duplicate warning says "already logged today" only when the
\* active log is a General or POTA log; for a Field Day or Winter Field Day
\* log the warning is produced without the "today" qualifier.
C12_TodayOnlyForDailyLogs ==
    [][(/\ KeyStep
        /\ last'.op = "AddQso"
        /\ last'.ok
        /\ current_log # None
        /\ find_duplicates(Unwrap(current_log), Unwrap(last'.qso), now) # {})
       => qso_entry'.error =
             Some(IF Unwrap(current_log).variant \in {"General", "Pota"}
                  THEN "Warning: duplicate contact already logged today"
                  ELSE "Warning: duplicate contact")]_vars

\* C13: once the duplicate warning is shown on QSO Entry it stays shown
\* through every later key event (typing, focus moves, band and mode
\* cycling, submits that fail validation) until the next submit that passes
\* validation; that submit, when its contact is recorded, clears the warning
\* unless the contact is itself a duplicate.
C13_WarningStaysUntilSubmit ==
    [][(/\ KeyStep
        /\ screen = "QsoEntry"
        /\ qso_entry.error = Some(WarningToday))
       => IF last'.op \in {"AddQso", "UpdateQso"}
          THEN (last'.op = "AddQso" /\ last'.ok)
                  => qso_entry'.error =
                        IF find_duplicates(Unwrap(current_log),
                                           Unwrap(last'.qso), now) # {}
                        THEN Some(WarningToday) ELSE None
          ELSE qso_entry'.error = Some(WarningToday)]_vars

C21_EveryEntryResetsRow ==
    [][(KeyStep /\ screen # "QsoList" /\ screen' = "QsoList")
           => qso_list'.selected = 0]_vars

\* C21 as amended: every transition into the QSO List screen made by a
\* Navigate(QsoList) action leaves the selected row index at 0; the
\* transition made by a successfully saved edit leaves the index as it was.
C21_NavigateResetsRow ==
    [][(KeyStep /\ screen # "QsoList" /\ screen' = "QsoList")
           => IF last'.op = "Navigate" THEN qso_list'.selected = 0
              ELSE /\ last'.op = "UpdateQso"
                   /\ qso_list'.selected = qso_list.selected]_vars

\* C21 witness: the QSO List of a log with two contacts, entered through
\* Navigate with the first row highlighted.
C21_Witness ==
    /\ screen = "QsoList"
    /\ last.op = "Navigate"
    /\ qso_list.selected = 0
    /\ qso_count = 2

\* C22: Enter on row i of the QSO List opens the contact at row i for
\* editing and leaves row i highlighted, no key handled while QSO Entry
\* stays shown moves the highlight, and a successfully saved edit shows
\* the QSO List with the highlight where it was: on row i.
C22_EditSaveKeepsRow ==
    /\ [][(KeyStep /\ last'.op = "EditQso" /\ last'.why = "")
             => /\ qso_entry'.editing = Some(qso_list.selected)
                /\ qso_list' = qso_list
                /\ screen' = "QsoEntry"]_vars
    /\ [][(KeyStep /\ screen = "QsoEntry" /\ screen' = "QsoEntry")
             => qso_list' = qso_list]_vars
    /\ [][(KeyStep /\ last'.op = "UpdateQso" /\ last'.ok
                   /\ qso_entry.editing = Some(qso_list.selected))
             => /\ screen' = "QsoList"
                /\ qso_list'.selected = qso_list.selected]_vars

\* C22 witness: the second row's contact was edited and saved, and the QSO
\* List is shown with the second row highlighted.
C22_Witness ==
    /\ last.op = "UpdateQso"
    /\ last.ok
    /\ screen = "QsoList"
    /\ qso_list.selected = 1
    /\ qso_count = 2
    /\ qso_entry.editing = None

C25_HelpReturnsToOrigin ==
    [][(KeyStep /\ screen = "Help" /\ last'.op # "Help")
           => screen' = last.from]_vars

\* C26 as stated: while Export is shown with status Success or Error,
\* every key press moves the shell to QSO Entry; the status becomes
\* Success or Error only by an ExportLog action and is Ready whenever
\* Export is entered.
C26_AnyKeyAcknowledges ==
    /\ [][(KeyStep /\ screen = "Export"
                   /\ export.status \in {"Success", "Error"})
             => screen' = "QsoEntry"]_vars
    /\ [][(KeyStep /\ export'.status \in {"Success", "Error"}
                   /\ export'.status # export.status)
             => last'.op = "ExportLog"]_vars
    /\ [][(KeyStep /\ screen # "Export" /\ screen' = "Export")
             => export'.status = "Ready"]_vars

\* C26 as amended: while Export is shown with status Success or Error,
\* every key press but ? moves the shell to QSO Entry, and ? opens Help
\* with the status left as it is; the status becomes Success or Error only
\* by an ExportLog action and is Ready whenever Export is entered.
C26_AnyKeyButHelpAcknowledges ==
    /\ [][(KeyStep /\ screen = "Export"
                   /\ export.status \in {"Success", "Error"})
             => IF last'.op = "Help"
                THEN screen' = "Help" /\ export' = export
                ELSE screen' = "QsoEntry"]_vars
    /\ [][(KeyStep /\ export'.status \in {"Success", "Error"}
                   /\ export'.status # export.status)
             => last'.op = "ExportLog"]_vars
    /\ [][(KeyStep /\ screen # "Export" /\ screen' = "Export")
             => export'.status = "Ready"]_vars

\* C26 witness: QSO Entry shown again after a key acknowledged a failed
\* export.
C26_Witness ==
    /\ screen = "QsoEntry"
    /\ last.op = "Navigate"
    /\ export.status = "Error"
    /\ current_log # None

\* C29: handling a key changes the stored logs only when the shell applies
\* CreateLog, AddQso, UpdateQso or DeleteLog; a key that results in None,
\* Navigate, SelectLog, EditQso, ExportLog or Quit, or that opens Help,
\* leaves the storage directory exactly as it was.
C29_OnlyFourActionsWrite ==
    [][KeyStep
          => /\ disk' # disk
                   => last'.op \in {"CreateLog", "AddQso", "UpdateQso",
                                    "DeleteLog"}
             /\ last'.op \in {"None", "Navigate", "SelectLog", "EditQso",
                               "ExportLog", "Quit", "Help"}
                   => disk' = disk]_vars

\* C29 witness: an export was written for the active log, whose file is
\* in the storage directory.
C29_Witness ==
    /\ last.op = "ExportLog"
    /\ last.ok
    /\ export.status = "Success"
    /\ current_log # None
    /\ log_path(Unwrap(current_log).log_id) \in DOMAIN disk

\* C31: as long as no storage call has failed, the active log is what
\* storage holds under its log_id: loading that id succeeds and returns a
\* log equal to the one in memory, header and contacts in order.
C31_MemoryMatchesStorage ==
    (faults = 0 /\ current_log # None)
        => load_log(disk, Unwrap(current_log).log_id) = Ok(Unwrap(current_log))

\* C31 witness: with no failure so far, an edit replaced the first of two
\* contacts of the active log and was saved.
C31_Witness ==
    /\ faults = 0
    /\ last.op = "UpdateQso"
    /\ last.ok
    /\ current_log # None
    /\ Len(Unwrap(current_log).qsos) = 2
    /\ Unwrap(current_log).qsos[1].their_call = N0CALL
    /\ load_log(disk, Unwrap(current_log).log_id).ok

\* C32: the log SelectLog adopts is what storage holds under its log_id
\* at that moment: loading the id succeeds and returns a log equal to the
\* adopted one, whatever storage failures came before.
C32_SelectAdoptsStored ==
    [][(KeyStep /\ last'.op = "SelectLog")
          => load_log(disk', Unwrap(last'.log_id))
                 = Ok(Unwrap(current_log'))]_vars

\* C33: when the re-save of UpdateQso fails, the active log is as it was
\* before the key (the contact at the index is not replaced).
C33_FailedUpdateKeepsMemory ==
    [][(KeyStep /\ last'.op = "UpdateQso" /\ ~last'.ok)
          => current_log' = current_log]_vars

\* C34: CreateLog leaves every stored log as it was: each file that loaded
\* before the key still loads after it, to the same header and contacts.
C34_CreateNeverOverwrites ==
    [][(KeyStep /\ last'.op = "CreateLog")
          => \A path \in DOMAIN disk :
                load_log_from_path(disk, path).ok
                    => /\ path \in DOMAIN disk'
                       /\ load_log_from_path(disk', path)
                              = load_log_from_path(disk, path)]_vars

\* C35: a log created on Log Create that matches a stored log on every
\* duplicate axis of create_log is rejected: an error is shown, nothing is
\* written and the log is not adopted; so no two stored logs match each
\* other on all axes.
C35_DuplicateCreateRejected ==
    [][(KeyStep /\ last'.op = "CreateLog"
               /\ \E path \in DOMAIN disk :
                     /\ load_log_from_path(disk, path).ok
                     /\ \E log \in CreateInputs(now) :
                           /\ Some(log.log_id) = last'.log_id
                           /\ IsDuplicateLog(
                                  load_log_from_path(disk, path).value, log))
          => /\ ~last'.ok
             /\ disk' = disk
             /\ current_log' = current_log
             /\ log_select'.error # None \/ log_create' # log_create]_vars

\* C36: whenever QSO Entry, QSO List or Export is shown there is an active
\* log, and no key makes AddQso, EditQso, UpdateQso or ExportLog take the
\* "No active log selected" branch.
C36_LogScreensHaveActiveLog ==
    /\ screen \in {"QsoEntry", "QsoList", "Export"} => current_log # None
    /\ last.why # "no log"
    /\ qso_entry.error # Some("No active log selected")

\* C36 witness: a contact of the active log was opened for editing from
\* the QSO List.
C36_Witness ==
    /\ screen = "QsoEntry"
    /\ last.op = "EditQso"
    /\ last.why = ""
    /\ qso_entry.editing # None
    /\ current_log # None

\* C37: while QSO List is shown the selected row is below the number of
\* contacts of the active log, and is 0 when there are none; Enter's
\* EditQso never takes the out-of-bounds branch.
C37_SelectedRowInRange ==
    /\ screen = "QsoList"
          => IF qso_count > 0 THEN qso_list.selected < qso_count
             ELSE qso_list.selected = 0
    /\ last.op = "EditQso" => last.why # "bounds"

\* C37 witness: Up, Down, Home or End was pressed and the last of two rows
\* is selected.
C37_Witness ==
    /\ screen = "QsoList"
    /\ last.op = "None"
    /\ qso_count = 2
    /\ qso_list.selected = 1

\* C38: whenever QSO Entry is shown with an active log of n contacts, the
\* recent contacts are the last min(3, n) contacts of the active log,
\* newest first.
C38_RecentMatchesLog ==
    (screen = "QsoEntry" /\ current_log # None)
        => LET qsos == Unwrap(current_log).qsos
               n == Len(qsos)
           IN  qso_entry.recent_qsos
                   = [i \in 1..Min(3, n) |-> qsos[n + 1 - i]]

\* C39: on Log Select no row is highlighted exactly when the cached list
\* is empty, and a highlighted row is an index into the list; Up on the
\* first row and Down on the last row change nothing; Up and Down move by
\* one row at most and leave the list alone; SelectLog is applied only to
\* Enter on Log Select, for the highlighted log of the cached list.
C39_HighlightStaysValid ==
    /\ [](/\ log_select.selected = None <=> Len(log_select.logs) = 0
          /\ log_select.selected # None
                => Unwrap(log_select.selected) \in
                       0..(Len(log_select.logs) - 1))
    /\ [][(LogSelectUp /\ log_select.selected = Some(0))
             => log_select' = log_select]_vars
    /\ [][(LogSelectDown
              /\ log_select.selected = Some(Len(log_select.logs) - 1))
             => log_select' = log_select]_vars
    /\ [][(LogSelectUp \/ LogSelectDown)
             => /\ log_select'.logs = log_select.logs
                /\ log_select.selected # None
                      => /\ log_select'.selected # None
                         /\ Unwrap(log_select'.selected)
                                - Unwrap(log_select.selected) \in {-1, 0, 1}
                /\ UNCHANGED <<screen, current_log, disk>>]_vars
    /\ [][(KeyStep /\ last'.op = "SelectLog")
             => /\ screen = "LogSelect"
                /\ Highlighted(log_select) # None
                /\ current_log' = Highlighted(log_select)
                /\ \E i \in 1..Len(log_select.logs) :
                      Unwrap(current_log') = log_select.logs[i]]_vars

\* C39 witness: Down moved the highlight to the last of two listed logs.
C39_Witness ==
    /\ screen = "LogSelect"
    /\ last.op = "None"
    /\ Len(log_select.logs) = 2
    /\ log_select.selected = Some(1)
    /\ log_select.pending_delete = None

----------------------------------------------------------------------------
(* Entry point claims *)

\* C40: when the process has ended with raw mode enabled at some point,
\* restore_terminal was called before the end: a process that has exited
\* with raw mode still on has at least attempted the restoration.
C40_TerminalRestoredOnExit ==
    (main.pc = "exited" /\ main.raw_mode) => main.restored

----------------------------------------------------------------------------
(* Form claims *)

\* C24: a press of ? on Log Select, QSO List, Export or Help shows Help and
\* changes no screen's state, the pressed-on screen's handler not having
\* run; on Log Create and QSO Entry no key opens Help, and ? is handled as
\* any character is: appended to the focused field (on Log Create when the
\* fields, not the type selector, have the focus).
C24_QuestionMarkOpensHelp ==
    /\ [][(events' # events
              /\ (screen \notin {"LogCreate", "QsoEntry"}
                    \/ last'.op = "Help"))
             => /\ screen \notin {"LogCreate", "QsoEntry"}
                /\ last'.op = "Help"
                /\ screen' = "Help"
                /\ UNCHANGED <<disk, current_log, should_quit, log_select,
                               log_create, qso_entry, qso_list,
                               export>>]_vars
    /\ [][(events' # events /\ screen \in {"LogCreate", "QsoEntry"})
             => screen' = screen]_vars
    /\ [][(events' # events /\ screen = "QsoEntry" /\ last'.op = "?")
             => qso_entry' =
                   [qso_entry EXCEPT !.form = insert_char(@, "?")]]_vars
    /\ [][(events' # events /\ screen = "LogCreate" /\ last'.op = "?")
             => log_create' =
                   IF log_create.focus_area = "Fields"
                   THEN [log_create EXCEPT !.form = insert_char(@, "?")]
                   ELSE log_create]_vars

\* C24 witness: Log Create still shown after ? was typed behind a letter
\* in the callsign field.
C24_Witness ==
    /\ screen = "LogCreate"
    /\ last.op = "?"
    /\ value(log_create.form, CALLSIGN) = <<"A", "?">>

\* C27: an RST field whose value the operator has edited by hand
\* keeps that value across every later mode change; a mode change replaces
\* an RST field with the new mode's default only if the field still held
\* the previous mode's default.
C27_HandEditsSurvive ==
    [][(events' # events /\ screen = "QsoEntry"
               /\ last'.op \in {"Alt+m", "Shift+Alt+M"})
          => \A f \in {RST_SENT, RST_RCVD} :
                /\ f \in last.by_hand
                      => value(qso_entry'.form, f) = value(qso_entry.form, f)
                /\ value(qso_entry'.form, f) # value(qso_entry.form, f)
                      => /\ value(qso_entry.form, f)
                              = default_rst(qso_entry.mode)
                         /\ value(qso_entry'.form, f)
                              = default_rst(qso_entry'.mode)]_vars

\* C28: on Log Create every field (callsign, operator, grid square, park
\* reference, transmitter count, class, section) has one text: the one
\* the form shows when the selected type has the field, the one its
\* buffer holds otherwise.  No key changes the text of a field other
\* than the focused one, only a character or Backspace changes the
\* focused one, Left and Right on the type selector do switch the type,
\* and the form always has exactly the selected type's fields; so what
\* was last typed into a field is shown whenever a type with that field
\* is selected.
C28_TypeSwitchKeepsText ==
    [][(events' # events /\ screen = "LogCreate")
          => LET Layout(t) ==
                     CASE t = "General" ->
                             <<"callsign", "operator", "grid_square">>
                       [] t = "Pota" ->
                             <<"callsign", "operator", "park_ref",
                               "grid_square">>
                       [] OTHER ->
                             <<"callsign", "operator", "grid_square",
                               "tx_count", "class", "section">>
                 Buf(lc, f) ==
                     CASE f = "callsign" -> lc.callsign_buf
                       [] f = "operator" -> lc.operator_buf
                       [] f = "grid_square" -> lc.grid_square_buf
                       [] f = "park_ref" -> lc.park_ref_buf
                       [] f = "tx_count" -> lc.tx_count_buf
                       [] f = "class" -> lc.class_buf
                       [] OTHER -> lc.section_buf
                 Pos(lc, f) ==
                     {i \in DOMAIN Layout(lc.log_type) :
                         Layout(lc.log_type)[i] = f}
                 Text(lc, f) ==
                     IF Pos(lc, f) # {}
                     THEN lc.form.values[CHOOSE i \in Pos(lc, f) : TRUE]
                     ELSE Buf(lc, f)
                 focused ==
                     IF log_create.focus_area = "Fields"
                     THEN {Layout(log_create.log_type)
                              [log_create.form.focus + 1]}
                     ELSE {}
             IN  /\ Len(log_create'.form.values)
                       = Len(Layout(log_create'.log_type))
                 /\ \A f \in {"callsign", "operator", "grid_square",
                               "park_ref", "tx_count", "class", "section"} :
                       (f \notin focused
                            \/ last'.op \notin {"Backspace"} \cup Chars)
                          => Text(log_create', f) = Text(log_create, f)
                 /\ (last'.op \in {"Left", "Right"}
                        /\ log_create.focus_area = "TypeSelector")
                       => log_create'.log_type # log_create.log_type]_vars

\* C28 witness: the POTA form shows the park reference and the grid
\* square typed into it before the type was switched away (which put the
\* park reference in its buffer) and back.
C28_Witness ==
    /\ screen = "LogCreate"
    /\ last.op = "Left"
    /\ log_create.log_type = "Pota"
    /\ value(log_create.form, POTA_PARK_REF) = <<"C">>
    /\ value(log_create.form, POTA_GRID) = <<"D">>
    /\ log_create.park_ref_buf = <<"C">>

----------------------------------------------------------------------------
(* Log claims *)

\* C14: find_duplicates considers only the contacts of the current UTC day
\* for General and POTA logs and every contact for Field Day and Winter
\* Field Day logs; a considered contact matches exactly when its call
\* (compared in lower case), band and mode equal the new contact's.
C14_DuplicateScope ==
    [][(events' # events /\ last'.op = "add_qso")
       => LET log == Unwrap(current_log)
              qso == Unwrap(last'.qso)
              considered ==
                 IF log.variant \in {"General", "Pota"}
                 THEN {i \in 1..Len(log.qsos) :
                          log.qsos[i].timestamp \div TicksPerDay
                             = now \div TicksPerDay}
                 ELSE 1..Len(log.qsos)
          IN  last'.dups =
                 {i \in considered :
                     /\ to_lowercase(log.qsos[i].their_call)
                            = to_lowercase(qso.their_call)
                     /\ log.qsos[i].band = qso.band
                     /\ log.qsos[i].mode = qso.mode}]_vars

\* A contest log answered with a contact of an earlier day whose call
\* differs from the new contact's in case only.
C14_Witness ==
    /\ last.op = "add_qso"
    /\ Unwrap(current_log).variant = "FieldDay"
    /\ \E i \in last.dups :
          LET q == Unwrap(current_log).qsos[i]
          IN  /\ DateNaive(q.timestamp) # DateNaive(Unwrap(last.qso).timestamp)
              /\ q.their_call # Unwrap(last.qso).their_call

\* C15: the unique-contact count of a date D is the number of different
\* (lower-cased call, band, mode) keys among the contacts dated D; adding a
\* contact whose key already occurs on D leaves the count of D unchanged,
\* and adding a contact dated D whose key does not occur on D, differing in
\* call, band or mode, raises it by one.
C15_UniqueCount ==
    [][(events' # events /\ last'.op = "add_qso")
       => LET log == Unwrap(current_log)
              qso == Unwrap(last'.qso)
              Key(q) == <<to_lowercase(q.their_call), q.band, q.mode>>
              KeysOn(l, D) ==
                 {Key(l.qsos[i]) :
                     i \in {j \in 1..Len(l.qsos) :
                               l.qsos[j].timestamp \div TicksPerDay = D}}
          IN  \A D \in Days :
                 /\ last'.counts[D]
                       = Cardinality(KeysOn(Unwrap(current_log'), D))
                 /\ last'.counts[D] =
                       IF qso.timestamp \div TicksPerDay = D
                          /\ Key(qso) \notin KeysOn(log, D)
                       THEN last.counts[D] + 1
                       ELSE last.counts[D]]_vars

\* A log with the same station on two bands or modes and a repeated key on
\* one day: more contacts that day than unique contacts, of which there
\* are at least two kinds for that station.
C15_Witness ==
    /\ last.op = "add_qso"
    /\ LET log == Unwrap(current_log)
           D == DateNaive(now)
           today == {i \in 1..Len(log.qsos) :
                        DateNaive(log.qsos[i].timestamp) = D}
       IN  /\ Cardinality(today) > last.counts[D]
           /\ \E i, j \in today :
                 /\ log.qsos[i].their_call = log.qsos[j].their_call
                 /\ log.qsos[i].band # log.qsos[j].band

\* C16: for a POTA log with n unique contacts today, needs_for_activation
\* is max(0, 10 - n) and is_activated is n >= 10; for General, Field Day
\* and Winter Field Day logs they are 0 and false for every contact count.
C16_ActivationArithmetic ==
    LET log == Unwrap(current_log)
        n == Cardinality(
                {<<to_lowercase(log.qsos[i].their_call), log.qsos[i].band,
                   log.qsos[i].mode>> :
                    i \in {j \in 1..Len(log.qsos) :
                              log.qsos[j].timestamp \div TicksPerDay
                                 = now \div TicksPerDay}})
    IN  IF log.variant = "Pota"
        THEN /\ last.needs = (IF 10 - n > 0 THEN 10 - n ELSE 0)
             /\ last.activated = (n >= 10)
        ELSE last.needs = 0 /\ last.activated = FALSE

\* A POTA log that a contact on another band brought to exactly ten unique
\* contacts today
C16_Witness ==
    /\ last.op = "add_qso"
    /\ Unwrap(current_log).variant = "Pota"
    /\ last.counts[DateNaive(now)] = 10
    /\ last.activated
    /\ last.needs = 0

----------------------------------------------------------------------------
(* Directory claims *)

C18_ListOrderIndependent ==
    [][(events' # events /\ last'.op = "list_logs" /\ last'.ok)
       => LET logs == Unwrap(last'.log)
          IN  /\ \A o \in ScanOrders(disk) :
                    list_logs(disk, o, TRUE) = Ok(logs)
              /\ Len(logs) = Cardinality(DOMAIN disk)
              /\ \A p \in DOMAIN disk :
                    \E i \in 1..Len(logs) : logs[i] = LoadFile(disk[p]).value
              /\ \A i, j \in 1..Len(logs) :
                    i < j => logs[i].created_at >= logs[j].created_at]_vars

\* C19: if a file of the storage directory cannot be loaded (an empty file,
\* a malformed metadata line or a malformed contact line), list_logs fails
\* as a whole and returns no list, and load_log of that file fails and
\* returns no log.
C19_CorruptFileFailsAll ==
    LET Corrupt(f) ==
           \/ Len(f.lines) = 0
           \/ f.lines[1].kind # "meta"
           \/ \E i \in 2..Len(f.lines) : f.lines[i].kind # "qso"
    IN  /\ (last.op = "list_logs" /\ \E p \in DOMAIN disk : Corrupt(disk[p]))
              => ~last.ok /\ last.log = None
        /\ (/\ last.op = "load_log"
            /\ log_path(Unwrap(last.log_id)) \in DOMAIN disk
            /\ Corrupt(disk[log_path(Unwrap(last.log_id))]))
              => ~last.ok /\ last.log = None

\* list_logs was called on a directory holding a loadable log and a file
\* whose last contact line is malformed.
C19_Witness ==
    /\ last.op = "list_logs"
    /\ ~last.ok
    /\ \E p, q \in DOMAIN disk :
          /\ LoadFile(disk[p]).ok
          /\ Len(disk[q].lines) = 3
          /\ disk[q].lines[2].kind = "qso"
          /\ disk[q].lines[3].kind = "bad"

====
